---------------------------- MODULE Spec2Model ----------------------------
(***************************************************************************)
(* Auto-fit of Google Tasks into the free time of one calendar day.        *)
(*                                                                         *)
(* The module models src/src/lib/google/tasks.ts (autoFitTasks and its     *)
(* helpers, and the key-value accessors for placements) and the auto-fit   *)
(* route src/src/app/api/autofit/route.ts.                                 *)
(*                                                                         *)
(* Instants are JavaScript Date values: integer milliseconds.  They are    *)
(* counted from 00:00 UTC of OriginDate instead of 1970-01-01 so that they *)
(* fit the model checker's 32-bit integers; every operation of the code    *)
(* (differences, comparisons, minute-of-hour, calendar date) is invariant  *)
(* under that shift by whole days.                                         *)
(***************************************************************************)
EXTENDS Integers, Sequences, FiniteSets, TLC

(***************************************************************************)
(* Calendar arithmetic of the JavaScript Date object (proleptic Gregorian, *)
(* UTC).                                                                   *)
(***************************************************************************)
MsPerMinute == 60 * 1000
MsPerHour   == 60 * MsPerMinute
MsPerDay    == 24 * MsPerHour

\* Days from 1970-01-01 to the civil date y-m-d.
DaysFromCivil(y, m, d) ==
  LET yy  == IF m <= 2 THEN y - 1 ELSE y
      era == yy \div 400
      yoe == yy - era * 400
      mp  == (m + 9) % 12
      doy == (153 * mp + 2) \div 5 + d - 1
      doe == yoe * 365 + yoe \div 4 - yoe \div 100 + doy
  IN  era * 146097 + doe - 719468

\* The civil date <<y, m, d>> that lies z days after 1970-01-01.
CivilFromDays(z) ==
  LET zz  == z + 719468
      era == zz \div 146097
      doe == zz - era * 146097
      yoe == (doe - doe \div 1460 + doe \div 36524 - doe \div 146096) \div 365
      doy == doe - (365 * yoe + yoe \div 4 - yoe \div 100)
      mp  == (5 * doy + 2) \div 153
      d   == doy - (153 * mp + 2) \div 5 + 1
      m   == IF mp < 10 THEN mp + 3 ELSE mp - 9
      y   == yoe + era * 400 + (IF m <= 2 THEN 1 ELSE 0)
  IN  <<y, m, d>>

\* The day all instants of the model are counted from.
OriginDate == <<2025, 12, 30>>
OriginDay  == DaysFromCivil(OriginDate[1], OriginDate[2], OriginDate[3])

\* Date.UTC(year, month - 1, day, hours, minutes, 0, 0)
DateUTC(year, month, day, hours, minutes) ==
  (DaysFromCivil(year, month, day) - OriginDay) * MsPerDay
    + hours * MsPerHour + minutes * MsPerMinute

\* getUTCFullYear / getUTCMonth() + 1 / getUTCDate of an instant.
UTCDateOf(t) == CivilFromDays(OriginDay + t \div MsPerDay)
getUTCMinutes(t)      == (t % MsPerHour) \div MsPerMinute
getUTCSeconds(t)      == (t % MsPerMinute) \div 1000
getUTCMilliseconds(t) == t % 1000

\* Date.prototype.toISOString: the UTC fields of the instant.
toISOString(t) ==
  LET c == UTCDateOf(t)
  IN  [year |-> c[1], month |-> c[2], day |-> c[3],
       hour |-> (t % MsPerDay) \div MsPerHour,
       minute |-> getUTCMinutes(t),
       second |-> getUTCSeconds(t),
       ms |-> getUTCMilliseconds(t)]

\* new Date(isoString).getTime()
DateParse(iso) ==
  DateUTC(iso.year, iso.month, iso.day, iso.hour, iso.minute)
    + iso.second * 1000 + iso.ms

\* An optional value (undefined | T) is the empty or the one-element sequence.
None == <<>>
Some(v) == <<v>>


(***************************************************************************)
(* Data.  A wall time "HH:MM" is the pair <<hours, minutes>> its split     *)
(* yields, a date "YYYY-MM-DD" the triple <<year, month, day>>; an ISO     *)
(* date-time string is the record of its UTC fields (toISOString).         *)
(*   task      [id, title, due (optional ISO), hasSubtasks]                *)
(*   event     [start |-> [dateTime |-> optional ISO], end |-> the same]   *)
(*   placement [id, taskId, taskTitle, startTime (ISO), duration]          *)
(*   slot      [start, end] (instants)                                     *)
(***************************************************************************)
TIME_SLOT_INTERVAL == 15

TimeSlot(s, e) == [start |-> s, end |-> e]

\* Array.prototype.splice(i, 1) and splice(i, 0, x), 1-based.
SpliceOut(seq, i) == SubSeq(seq, 1, i - 1) \o SubSeq(seq, i + 1, Len(seq))
SpliceIn(seq, i, x) == SubSeq(seq, 1, i - 1) \o <<x>> \o SubSeq(seq, i, Len(seq))

\* Variant: rounds down to the slot boundary before `time`.
RoundDownToSlot(time) ==
  LET minutes   == getUTCMinutes(time)
      remainder == minutes % TIME_SLOT_INTERVAL
  IN  (time - (time % MsPerHour)) + (minutes - remainder) * MsPerMinute

_roundUpToNextSlot(time) ==
  LET minutes   == getUTCMinutes(time)
      remainder == minutes % TIME_SLOT_INTERVAL
  IN  IF remainder = 0 /\ getUTCSeconds(time) = 0 /\ getUTCMilliseconds(time) = 0
      THEN time
      ELSE \* setUTCMinutes(minutes + (TIME_SLOT_INTERVAL - remainder), 0, 0)
           (time - (time % MsPerHour))
             + (minutes + (TIME_SLOT_INTERVAL - remainder)) * MsPerMinute

_parseTimeToDate(date, time, timezoneOffset) ==
  LET utcTime == DateUTC(date[1], date[2], date[3], time[1], time[2])
  IN  utcTime + timezoneOffset * 60 * 1000

\* One event's contribution to the blocked list (the body of the first loop).
BlockedByEvent(event, minGap) ==
  IF event.start.dateTime # None /\ event.end.dateTime # None
  THEN <<TimeSlot(DateParse(event.start.dateTime[1]) - minGap * 60 * 1000,
                  DateParse(event.end.dateTime[1]) + minGap * 60 * 1000)>>
  ELSE <<>>

\* Variant: an existing placement blocks its own time only, without the gap.
BlockedByPlacementNoBuffer(placement, minGap) ==
  LET start == DateParse(placement.startTime)
  IN  TimeSlot(start, start + placement.duration * 60 * 1000)

\* One placement's contribution to the blocked list (the body of the second loop).
BlockedByPlacement(placement, minGap) ==
  LET start == DateParse(placement.startTime)
      end   == start + placement.duration * 60 * 1000
  IN  TimeSlot(start - minGap * 60 * 1000, end + minGap * 60 * 1000)

RECURSIVE BlockedEvents(_, _)
BlockedEvents(events, minGap) ==
  IF events = <<>> THEN <<>>
  ELSE BlockedByEvent(Head(events), minGap) \o BlockedEvents(Tail(events), minGap)

_getBlockedTimes(events, placements, minGap) ==
  BlockedEvents(events, minGap)
    \o [i \in 1..Len(placements) |-> BlockedByPlacement(placements[i], minGap)]

\* Variant: the slot split off behind the block begins at the block's start.
SubtractAtSplitAtStart(slots, i, blockStart, blockEnd) ==
  LET slot == slots[i]
  IN  IF blockEnd <= slot.start \/ blockStart >= slot.end
      THEN slots
      ELSE IF blockStart <= slot.start /\ blockEnd >= slot.end
      THEN SpliceOut(slots, i)
      ELSE IF blockStart > slot.start /\ blockEnd < slot.end
      THEN SpliceIn([slots EXCEPT ![i].end = blockStart], i + 1,
                    TimeSlot(blockStart, slot.end))
      ELSE IF blockStart <= slot.start
      THEN [slots EXCEPT ![i].start = blockEnd]
      ELSE [slots EXCEPT ![i].end = blockStart]

\* Variant: a slot the block covers is left in the list.
SubtractAtKeepCovered(slots, i, blockStart, blockEnd) ==
  LET slot == slots[i]
  IN  IF blockEnd <= slot.start \/ blockStart >= slot.end
      THEN slots
      ELSE IF blockStart <= slot.start /\ blockEnd >= slot.end
      THEN slots
      ELSE IF blockStart > slot.start /\ blockEnd < slot.end
      THEN SpliceIn([slots EXCEPT ![i].end = blockStart], i + 1,
                    TimeSlot(blockEnd, slot.end))
      ELSE IF blockStart <= slot.start
      THEN [slots EXCEPT ![i].start = blockEnd]
      ELSE [slots EXCEPT ![i].end = blockStart]

\* What _subtractTimeFromSlots does to slot i (the body of its loop): the
\* slot list after the iteration.
SubtractAt(slots, i, blockStart, blockEnd) ==
  LET slot == slots[i]
  IN  IF blockEnd <= slot.start \/ blockStart >= slot.end
      THEN slots
      ELSE IF blockStart <= slot.start /\ blockEnd >= slot.end
      THEN SpliceOut(slots, i)
      ELSE IF blockStart > slot.start /\ blockEnd < slot.end
      THEN SpliceIn([slots EXCEPT ![i].end = blockStart], i + 1,
                    TimeSlot(blockEnd, slot.end))
      ELSE IF blockStart <= slot.start
      THEN [slots EXCEPT ![i].start = blockEnd]
      ELSE [slots EXCEPT ![i].end = blockStart]

\* for (let i = slots.length - 1; i >= 0; i--)
RECURSIVE SubtractLoop(_, _, _, _)
SubtractLoop(slots, i, blockStart, blockEnd) ==
  IF i < 1 THEN slots
  ELSE SubtractLoop(SubtractAt(slots, i, blockStart, blockEnd), i - 1,
                    blockStart, blockEnd)

_subtractTimeFromSlots(slots, blockStart, blockEnd) ==
  SubtractLoop(slots, Len(slots), blockStart, blockEnd)

\* The first slot wide enough, as the optional slot the code returns.
RECURSIVE FindFrom(_, _, _)
FindFrom(slots, i, durationMs) ==
  IF i > Len(slots) THEN None
  ELSE IF slots[i].end - slots[i].start >= durationMs
       THEN Some(TimeSlot(slots[i].start, slots[i].start + durationMs))
       ELSE FindFrom(slots, i + 1, durationMs)

_findFirstAvailableSlot(slots, durationMinutes) ==
  FindFrom(slots, 1, durationMinutes * 60 * 1000)

\* Variant: the placed task's own time is removed, the gap after it is not.
RemoveSlotTimeNoGap(slots, start, durationMinutes, gapMinutes) ==
  _subtractTimeFromSlots(slots, start, start + durationMinutes * 60 * 1000)

_removeSlotTime(slots, start, durationMinutes, gapMinutes) ==
  LET blockStart == start
      blockEnd   == start + (durationMinutes + gapMinutes) * 60 * 1000
  IN  _subtractTimeFromSlots(slots, blockStart, blockEnd)

\* The comparator of _sortTasksByPriority: negative, zero or positive.
ComparePriority(a, b) ==
  LET aHasDue == a.due # None
      bHasDue == b.due # None
  IN  IF aHasDue # bHasDue THEN (IF aHasDue THEN -1 ELSE 1)
      ELSE IF aHasDue /\ bHasDue
           THEN DateParse(a.due[1]) - DateParse(b.due[1])
           ELSE 0

\* Variant: an unstable insertion, which puts a task before its equals.
RECURSIVE UnstableInsert(_, _)
UnstableInsert(sorted, t) ==
  IF sorted = <<>> THEN <<t>>
  ELSE IF ComparePriority(sorted[Len(sorted)], t) < 0
       THEN Append(sorted, t)
       ELSE Append(UnstableInsert(SubSeq(sorted, 1, Len(sorted) - 1), t),
                   sorted[Len(sorted)])

\* Array.prototype.sort is stable: an element goes after every element already
\* placed that does not compare greater than it.
RECURSIVE StableInsert(_, _)
StableInsert(sorted, t) ==
  IF sorted = <<>> THEN <<t>>
  ELSE IF ComparePriority(sorted[Len(sorted)], t) <= 0
       THEN Append(sorted, t)
       ELSE Append(StableInsert(SubSeq(sorted, 1, Len(sorted) - 1), t),
                   sorted[Len(sorted)])

RECURSIVE SortLoop(_, _)
SortLoop(sorted, rest) ==
  IF rest = <<>> THEN sorted
  ELSE SortLoop(StableInsert(sorted, Head(rest)), Tail(rest))

_sortTasksByPriority(tasks) == SortLoop(<<>>, tasks)

_generateResultMessage(placements, unplaced) ==
  IF Len(unplaced) = 0
  THEN <<"Successfully placed", Len(placements)>>
  ELSE IF Len(placements) = 0
  THEN <<"Could not place any tasks. No available time slots.">>
  ELSE <<"Placed", Len(placements), "could not fit", Len(unplaced)>>


\* getTimezoneOffsetMinutes of the auto-fit route.  A time zone is given by
\* the minutes its wall clock is ahead of UTC on the date; the formatters
\* yield the hour and the day of month of 12:00 UTC of the date.
getTimezoneOffsetMinutes(timezone, date) ==
  LET refDate == DateUTC(date[1], date[2], date[3], 12, 0)
      tzLocal == refDate + timezone * MsPerMinute
      tzParts == [hour |-> (tzLocal % MsPerDay) \div MsPerHour,
                  day |-> UTCDateOf(tzLocal)[3]]
      utcParts == [hour |-> (refDate % MsPerDay) \div MsPerHour,
                   day |-> UTCDateOf(refDate)[3]]
      h0 == tzParts.hour - utcParts.hour
      h1 == IF tzParts.day # utcParts.day
            THEN (IF tzParts.day > utcParts.day THEN h0 + 24 ELSE h0 - 24)
            ELSE h0
      h2 == IF h1 > 12 THEN h1 - 24 ELSE h1
      offsetHours == IF h2 < -12 THEN h2 + 24 ELSE h2
  IN  (-offsetHours) * 60

\* Variant: the range is not clamped to the visible range.
PushWorkingHoursUnclamped(slots, hours, calendarStart, calendarEnd, date, timezoneOffset) ==
  LET start == _parseTimeToDate(date, hours.start, timezoneOffset)
      end   == _parseTimeToDate(date, hours.end, timezoneOffset)
  IN  IF start < end THEN Append(slots, TimeSlot(start, end)) ELSE slots

\* Variant: only the start of the range is clamped.
PushWorkingHoursOpenEnd(slots, hours, calendarStart, calendarEnd, date, timezoneOffset) ==
  LET start0 == _parseTimeToDate(date, hours.start, timezoneOffset)
      end    == _parseTimeToDate(date, hours.end, timezoneOffset)
      start  == IF start0 < calendarStart THEN calendarStart ELSE start0
  IN  IF start < end THEN Append(slots, TimeSlot(start, end)) ELSE slots

\* Variant: the clamped range is appended whatever its width.
PushWorkingHoursAnyWidth(slots, hours, calendarStart, calendarEnd, date, timezoneOffset) ==
  LET start0 == _parseTimeToDate(date, hours.start, timezoneOffset)
      end0   == _parseTimeToDate(date, hours.end, timezoneOffset)
      start  == IF start0 < calendarStart THEN calendarStart ELSE start0
      end    == IF end0 > calendarEnd THEN calendarEnd ELSE end0
  IN  Append(slots, TimeSlot(start, end))

\* Lines 166-179 of _calculateAvailableSlots: one working-hours range, clamped
\* to the calendar's visible range, appended when it is still a valid range.
PushWorkingHours(slots, hours, calendarStart, calendarEnd, date, timezoneOffset) ==
  LET start0 == _parseTimeToDate(date, hours.start, timezoneOffset)
      end0   == _parseTimeToDate(date, hours.end, timezoneOffset)
      start  == IF start0 < calendarStart THEN calendarStart ELSE start0
      end    == IF end0 > calendarEnd THEN calendarEnd ELSE end0
  IN  IF start < end THEN Append(slots, TimeSlot(start, end)) ELSE slots

RECURSIVE WorkingHoursLoop(_, _, _, _, _, _)
WorkingHoursLoop(slots, workingHours, calendarStart, calendarEnd, date, timezoneOffset) ==
  IF workingHours = <<>> THEN slots
  ELSE WorkingHoursLoop(
         PushWorkingHours(slots, Head(workingHours), calendarStart, calendarEnd,
                          date, timezoneOffset),
         Tail(workingHours), calendarStart, calendarEnd, date, timezoneOffset)

\* Variant: without working hours the whole visible range is taken as one slot.
WorkingHourSlotsOrVisible(settings, date, timezoneOffset) ==
  LET calendarStart == _parseTimeToDate(date, settings.slotMinTime, timezoneOffset)
      calendarEnd   == _parseTimeToDate(date, settings.slotMaxTime, timezoneOffset)
  IN  IF settings.workingHours = <<>>
      THEN <<TimeSlot(calendarStart, calendarEnd)>>
      ELSE WorkingHoursLoop(<<>>, settings.workingHours, calendarStart, calendarEnd,
                            date, timezoneOffset)

\* Lines 160-179: the slots of the working hours inside the visible range.
WorkingHourSlots(settings, date, timezoneOffset) ==
  LET calendarStart == _parseTimeToDate(date, settings.slotMinTime, timezoneOffset)
      calendarEnd   == _parseTimeToDate(date, settings.slotMaxTime, timezoneOffset)
  IN  WorkingHoursLoop(<<>>, settings.workingHours, calendarStart, calendarEnd,
                       date, timezoneOffset)

\* Lines 185-186: the calendar date of `now` on the user's wall clock.
TodayStr(now, timezoneOffset) == UTCDateOf(now - timezoneOffset * 60 * 1000)

\* Lines 181-193: past time is cut out of today's slots.
ExcludePast(slots, now, date, timezoneOffset) ==
  IF date = TodayStr(now, timezoneOffset)
  THEN LET roundedNow == _roundUpToNextSlot(now)
           dayStart   == _parseTimeToDate(date, <<0, 0>>, timezoneOffset)
       IN  _subtractTimeFromSlots(slots, dayStart, roundedNow)
  ELSE slots

\* Line 201.
NonEmptySlots(slots) ==
  LET Wide(slot) == slot.end > slot.start IN SelectSeq(slots, Wide)

\* Variant: container tasks are never filtered out.
FilterNothing(tasks, settings) == tasks

\* Lines 88-90.
FilterTasks(tasks, settings) ==
  LET Leaf(t) == ~t.hasSubtasks
  IN  IF settings.ignoreContainerTasks THEN SelectSeq(tasks, Leaf) ELSE tasks

\* Lines 105-111.
NewPlacement(task, slot, settings, stamp, suffix) ==
  [id |-> <<task.id, stamp, suffix>>,
   taskId |-> task.id,
   taskTitle |-> task.title,
   startTime |-> toISOString(slot.start),
   duration |-> settings.defaultTaskDuration]


(***************************************************************************)
(* The inputs the model runs the code on.                                  *)
(***************************************************************************)
MaxRanges == 2      \* working-hours ranges in the settings
MaxTasks  == 3      \* tasks in a request
MaxBusy   == 1      \* events of the calendar, and stored placements
MaxTicks  == 1      \* milliseconds that pass while the tasks are placed

SeqsUpTo(S, n) == UNION {[1..k -> S] : k \in 0..n}

\* Math.random().toString(36).substr(2, 9)
RandomSuffixes == {"r"}

EarlierDate == <<2025, 12, 31>>
MidDate     == <<2026, 1, 1>>
LaterDate   == <<2026, 1, 2>>
Dates == {EarlierDate, MidDate, LaterDate}

Instant(date, h, m, s, ms) ==
  DateUTC(date[1], date[2], date[3], h, m) + s * 1000 + ms

Clocks ==
  { Instant(MidDate, 9, 40, 0, 0),       \* between two slot boundaries
    Instant(MidDate, 10, 0, 0, 0),       \* on a slot boundary
    Instant(MidDate, 9, 45, 0, 1),       \* a millisecond past a boundary
    Instant(MidDate, 9, 50, 30, 500),
    Instant(MidDate, 1, 40, 0, 0),       \* 09:40 at UTC+8
    Instant(MidDate, 4, 2, 0, 0),        \* 09:47 at UTC+5:45
    Instant(EarlierDate, 23, 50, 0, 0) } \* rounds up into the next day

\* What a request says about the user's zone: body.timezoneOffset (minutes,
\* negative east of UTC), body.timezone (a zone identifier: here whether
\* Intl knows it, and the minutes the zone is ahead of UTC), or nothing.
ByOffset(n) == [timezoneOffset |-> Some(n), timezone |-> None]
ByZone(o)   == [timezoneOffset |-> None,
                timezone |-> Some([known |-> TRUE, ahead |-> o])]
NoZone      == [timezoneOffset |-> None, timezone |-> None]

\* An identifier that names no zone, such as "Mars/Olympus".
UnknownZone == [timezoneOffset |-> None,
                timezone |-> Some([known |-> FALSE, ahead |-> 0])]

\* The offset the request's zone really has, in the sign of timezoneOffset.
ZoneOffset(tz) ==
  IF tz.timezoneOffset # None THEN tz.timezoneOffset[1]
  ELSE IF tz.timezone # None THEN -tz.timezone[1].ahead
  ELSE 0

\* The instant at which the wall clock of the zone reads `wall` on `date`.
WallInstant(date, wall, tz) ==
  DateUTC(date[1], date[2], date[3], wall[1], wall[2]) + ZoneOffset(tz) * MsPerMinute

Range(s, e) == [start |-> s, end |-> e]

TimedEvent(date, tz, s, e) ==
  [start |-> [dateTime |-> Some(toISOString(WallInstant(date, s, tz)))],
   end   |-> [dateTime |-> Some(toISOString(WallInstant(date, e, tz)))]]

AllDayEvent == [start |-> [dateTime |-> None], end |-> [dateTime |-> None]]

Event(date, tz, w) ==
  IF w = <<>> THEN AllDayEvent ELSE TimedEvent(date, tz, w[1], w[2])

Stored(date, tz, w) ==
  [id |-> <<w.taskId, 0, "manual">>, taskId |-> w.taskId, taskTitle |-> w.taskId,
   startTime |-> toISOString(WallInstant(date, w.at, tz)), duration |-> w.duration]

Task(id, due, hasSubtasks) ==
  [id |-> id, title |-> id, due |-> due, hasSubtasks |-> hasSubtasks]

DueOn(date) ==
  Some([year |-> date[1], month |-> date[2], day |-> date[3],
        hour |-> 0, minute |-> 0, second |-> 0, ms |-> 0])

TaskNames == <<"t1", "t2", "t3", "t4", "t5", "t6", "t7", "t8", "t9", "t10">>
UndatedTasks(n) == [i \in 1..n |-> Task(TaskNames[i], None, FALSE)]

Settings(workingHours, slotMinTime, slotMaxTime, duration, gap, ignore) ==
  [workingHours |-> workingHours,
   slotMinTime |-> slotMinTime,
   slotMaxTime |-> slotMaxTime,
   defaultTaskDuration |-> duration,
   minTimeBetweenTasks |-> gap,
   ignoreContainerTasks |-> ignore]

Input(tasks, date, tz, clk, stg, eventWalls, storedWalls) ==
  [request |-> [date |-> date, tasks |-> tasks,
                timezoneOffset |-> tz.timezoneOffset, timezone |-> tz.timezone],
   clock |-> clk,
   userSettings |-> stg,
   calendar |-> [i \in 1..Len(eventWalls) |-> Event(date, tz, eventWalls[i])],
   kv |-> [i \in 1..Len(storedWalls) |-> Stored(date, tz, storedWalls[i])]]

\* Working-hours ranges: in, across and outside the visible ranges, one
\* with its end before its start.
Ranges ==
  { Range(<<9, 0>>, <<9, 30>>), Range(<<9, 30>>, <<10, 30>>),
    Range(<<9, 0>>, <<10, 30>>), Range(<<10, 30>>, <<12, 0>>),
    Range(<<10, 0>>, <<9, 0>>), Range(<<5, 0>>, <<5, 45>>) }

VisibleRanges == { <<<<6, 0>>, <<22, 0>>>>, <<<<9, 15>>, <<10, 45>>>> }

\* Events by their wall times on the requested date; <<>> is an all-day event.
EventWalls == { <<<<9, 30>>, <<10, 0>>>>, <<<<8, 0>>, <<9, 0>>>>, <<>> }

StoredWalls ==
  { [taskId |-> "x", at |-> <<10, 0>>, duration |-> 30],
    [taskId |-> "t1", at |-> <<9, 45>>, duration |-> 15] }

Gaps == {0, 15}

TaskAlphabet ==
  { Task("a", None, FALSE), Task("e", None, FALSE), Task("p", None, TRUE),
    Task("b", DueOn(<<2026, 1, 5>>), FALSE),
    Task("c", DueOn(<<2026, 1, 3>>), FALSE),
    Task("d", DueOn(<<2026, 1, 3>>), FALSE) }

Zones == { ByOffset(0), ByOffset(-345), ByOffset(300), ByZone(480), NoZone }

(***************************************************************************)
(* State.  One auto-fit request is served from the request to the saved    *)
(* response; each variable below the environment is a local of the route   *)
(* handler, of autoFitTasks or of _calculateAvailableSlots.                *)
(***************************************************************************)
VARIABLES
  kv,                 \* the stored placements of the user and date (KV store)
  clock,              \* the current instant, as new Date() reads it
  request,            \* the request body: date, tasks, timezone / timezoneOffset
  userSettings,       \* the stored settings of the user
  calendar,           \* the events Google Calendar returns for the day
  pc,                 \* the handler's position
  settings, events, existingPlacements, timezoneOffset,
  slots,              \* slots / availableSlots
  now, blockedTimes, bi,
  sortedTasks, ti, placements, unplacedTasks, placedTaskIds,
  result,             \* what autoFitTasks returned
  response,           \* the JSON response of the route
  clockReads,         \* how often the invocation has read the current instant
  tzCall,             \* the frame of a call into lib/timezone.ts
  authCall,           \* the frame of a settings request through getAuthSession
  subCall,            \* the frame of a call of _subtractTimeFromSlots
  addCall             \* the frame of a POST /api/placements served alongside

env   == <<clock, request, userSettings, calendar>>
route == <<settings, events, existingPlacements, timezoneOffset>>
loop  == <<sortedTasks, ti, placements, unplacedTasks, placedTaskIds>>
side  == <<tzCall, authCall, subCall, addCall>>
vars  == <<kv, env, pc, route, slots, now, blockedTimes, bi, loop, result, response,
           clockReads, side>>

(***************************************************************************)
(* The handlers.                                                           *)
(***************************************************************************)

\* route.ts, the handler that takes body.timezoneOffset (lines 28-33).
POSTLegacy ==
  /\ pc = "request"
  /\ request.timezone = None
  /\ settings' = userSettings
  /\ events' = calendar
  /\ existingPlacements' = kv
  /\ timezoneOffset' = IF request.timezoneOffset # None
                       THEN request.timezoneOffset[1] ELSE 0
  /\ pc' = "buildSlots"
  /\ UNCHANGED <<kv, env, slots, now, blockedTimes, bi, loop, result, response>>
  /\ UNCHANGED <<clockReads, side>>

\* route.ts, the handler that takes body.timezone (lines 125-131).  The
\* formatter of getTimezoneOffsetMinutes is built from the identifier as it
\* came (lines 61-63), which Intl does for the identifiers it knows.
POST ==
  /\ pc = "request"
  /\ request.timezoneOffset = None
  /\ request.timezone # None => request.timezone[1].known
  /\ settings' = userSettings
  /\ events' = calendar
  /\ existingPlacements' = kv
  /\ timezoneOffset' = IF request.timezone # None
                       THEN getTimezoneOffsetMinutes(request.timezone[1].ahead,
                                                     request.date)
                       ELSE 0
  /\ pc' = "buildSlots"
  /\ UNCHANGED <<kv, env, slots, now, blockedTimes, bi, loop, result, response>>
  /\ UNCHANGED <<clockReads, side>>

\* The same handler when Intl does not know the identifier: the constructor
\* of the formatter (lines 61-63) throws a RangeError, which the handler
\* catches (lines 170-173) and answers with status 500.  Nothing is stored.
POSTFails ==
  /\ pc = "request"
  /\ request.timezoneOffset = None
  /\ request.timezone # None
  /\ ~request.timezone[1].known
  /\ settings' = userSettings
  /\ events' = calendar
  /\ existingPlacements' = kv
  /\ response' = [error |-> "Failed to run auto-fit", status |-> 500]
  /\ pc' = "failed"
  /\ UNCHANGED <<kv, env, timezoneOffset, slots, now, blockedTimes, bi, loop, result>>
  /\ UNCHANGED <<clockReads, side>>

\* _calculateAvailableSlots, lines 160-179.
BuildSlots ==
  /\ pc = "buildSlots"
  /\ slots' = WorkingHourSlots(settings, request.date, timezoneOffset)
  /\ pc' = "excludePast"
  /\ UNCHANGED <<kv, env, route, now, blockedTimes, bi, loop, result, response>>
  /\ UNCHANGED <<clockReads, side>>

\* _calculateAvailableSlots, lines 181-195: the one read of the clock.
TrimPast ==
  /\ pc = "excludePast"
  /\ now' = clock
  /\ slots' = ExcludePast(slots, now', request.date, timezoneOffset)
  /\ blockedTimes' = _getBlockedTimes(events, existingPlacements,
                                      settings.minTimeBetweenTasks)
  /\ bi' = 1
  /\ pc' = "subtract"
  /\ UNCHANGED <<kv, env, route, loop, result, response>>
  /\ clockReads' = clockReads + 1
  /\ UNCHANGED side

\* _calculateAvailableSlots, lines 197-199: one iteration.
SubtractBlocked ==
  /\ pc = "subtract"
  /\ bi <= Len(blockedTimes)
  /\ slots' = _subtractTimeFromSlots(slots, blockedTimes[bi].start, blockedTimes[bi].end)
  /\ bi' = bi + 1
  /\ UNCHANGED <<kv, env, pc, route, now, blockedTimes, loop, result, response>>
  /\ UNCHANGED <<clockReads, side>>

\* _calculateAvailableSlots line 201, then autoFitTasks lines 88-95.
SortTasks ==
  /\ pc = "subtract"
  /\ bi > Len(blockedTimes)
  /\ slots' = NonEmptySlots(slots)
  /\ sortedTasks' = _sortTasksByPriority(FilterTasks(request.tasks, settings))
  /\ placements' = <<>>
  /\ unplacedTasks' = <<>>
  /\ placedTaskIds' = {}
  /\ ti' = 1
  /\ pc' = "place"
  /\ UNCHANGED <<kv, env, route, now, blockedTimes, bi, result, response>>
  /\ UNCHANGED <<clockReads, side>>

\* autoFitTasks lines 98-100: a task id placed earlier in the loop.
SkipPlaced ==
  /\ pc = "place"
  /\ ti <= Len(sortedTasks)
  /\ sortedTasks[ti].id \in placedTaskIds
  /\ ti' = ti + 1
  /\ UNCHANGED <<kv, env, pc, route, slots, now, blockedTimes, bi,
                 sortedTasks, placements, unplacedTasks, placedTaskIds,
                 result, response>>
  /\ UNCHANGED <<clockReads, side>>

\* Variant: the id of a placed task is not remembered.
PlaceTaskUntracked ==
  /\ pc = "place"
  /\ ti <= Len(sortedTasks)
  /\ sortedTasks[ti].id \notin placedTaskIds
  /\ LET task == sortedTasks[ti]
         slot == _findFirstAvailableSlot(slots, settings.defaultTaskDuration)
     IN  /\ slot # None
         /\ \E suffix \in RandomSuffixes :
              placements' = Append(placements,
                              NewPlacement(task, slot[1], settings, clock, suffix))
         /\ placedTaskIds' = placedTaskIds
         /\ slots' = _removeSlotTime(slots, slot[1].start, settings.defaultTaskDuration,
                                     settings.minTimeBetweenTasks)
  /\ ti' = ti + 1
  /\ UNCHANGED <<kv, env, pc, route, now, blockedTimes, bi,
                 sortedTasks, unplacedTasks, result, response>>
  /\ clockReads' = clockReads + 1
  /\ UNCHANGED side

\* autoFitTasks lines 102-116: the task gets the first slot wide enough.
PlaceTask ==
  /\ pc = "place"
  /\ ti <= Len(sortedTasks)
  /\ sortedTasks[ti].id \notin placedTaskIds
  /\ LET task == sortedTasks[ti]
         slot == _findFirstAvailableSlot(slots, settings.defaultTaskDuration)
     IN  /\ slot # None
         /\ \E suffix \in RandomSuffixes :
              placements' = Append(placements,
                              NewPlacement(task, slot[1], settings, clock, suffix))
         /\ placedTaskIds' = placedTaskIds \cup {task.id}
         /\ slots' = _removeSlotTime(slots, slot[1].start, settings.defaultTaskDuration,
                                     settings.minTimeBetweenTasks)
  /\ ti' = ti + 1
  /\ UNCHANGED <<kv, env, pc, route, now, blockedTimes, bi,
                 sortedTasks, unplacedTasks, result, response>>
  /\ clockReads' = clockReads + 1
  /\ UNCHANGED side

\* Variant: a task that finds no slot gives the free time back, so that
\* later tasks are tried against the working hours again.
LeaveUnplacedAndRestore ==
  /\ pc = "place"
  /\ ti <= Len(sortedTasks)
  /\ sortedTasks[ti].id \notin placedTaskIds
  /\ _findFirstAvailableSlot(slots, settings.defaultTaskDuration) = None
  /\ unplacedTasks' = Append(unplacedTasks, sortedTasks[ti])
  /\ ti' = ti + 1
  /\ slots' = WorkingHourSlots(settings, request.date, timezoneOffset)
  /\ UNCHANGED <<kv, env, pc, route, now, blockedTimes, bi,
                 sortedTasks, placements, placedTaskIds, result, response>>
  /\ UNCHANGED <<clockReads, side>>

\* autoFitTasks lines 117-119: no slot is wide enough.
LeaveUnplaced ==
  /\ pc = "place"
  /\ ti <= Len(sortedTasks)
  /\ sortedTasks[ti].id \notin placedTaskIds
  /\ _findFirstAvailableSlot(slots, settings.defaultTaskDuration) = None
  /\ unplacedTasks' = Append(unplacedTasks, sortedTasks[ti])
  /\ ti' = ti + 1
  /\ UNCHANGED <<kv, env, pc, route, slots, now, blockedTimes, bi,
                 sortedTasks, placements, placedTaskIds, result, response>>
  /\ UNCHANGED <<clockReads, side>>

\* autoFitTasks lines 122-124.
ReturnResult ==
  /\ pc = "place"
  /\ ti > Len(sortedTasks)
  /\ result' = [placements |-> placements,
                unplacedTasks |-> unplacedTasks,
                message |-> _generateResultMessage(placements, unplacedTasks)]
  /\ pc' = "save"
  /\ UNCHANGED <<kv, env, route, slots, now, blockedTimes, bi, loop, response>>
  /\ UNCHANGED <<clockReads, side>>

\* Variant: only the new placements are stored.
SaveNewOnly ==
  /\ pc = "save"
  /\ kv' = result.placements
  /\ response' = [placements |-> result.placements,
                  unplacedTasks |-> result.unplacedTasks,
                  message |-> result.message,
                  allPlacements |-> existingPlacements \o result.placements]
  /\ pc' = "done"
  /\ UNCHANGED <<env, route, slots, now, blockedTimes, bi, loop, result>>
  /\ UNCHANGED <<clockReads, side>>

\* route.ts lines 133-134 and 166-169 (35-41 in the older handler).
SaveAndRespond ==
  /\ pc = "save"
  /\ LET allPlacements == existingPlacements \o result.placements
     IN  /\ kv' = allPlacements
         /\ response' = [placements |-> result.placements,
                         unplacedTasks |-> result.unplacedTasks,
                         message |-> result.message,
                         allPlacements |-> allPlacements]
  /\ pc' = "done"
  /\ UNCHANGED <<env, route, slots, now, blockedTimes, bi, loop, result>>
  /\ UNCHANGED <<clockReads, side>>

\* Time passes between new Date() (line 182) and a Date.now() (line 106).
Tick ==
  /\ pc = "place"
  /\ clock - now < MaxTicks
  /\ clock' = clock + 1
  /\ UNCHANGED <<kv, request, userSettings, calendar, pc, route, slots, now,
                 blockedTimes, bi, loop, result, response, clockReads, side>>

Next ==
  \/ POSTLegacy
  \/ POST
  \/ BuildSlots
  \/ TrimPast
  \/ SubtractBlocked
  \/ SortTasks
  \/ SkipPlaced
  \/ PlaceTask
  \/ LeaveUnplaced
  \/ ReturnResult
  \/ SaveAndRespond

\* The route handler at position `at`, nothing computed yet.
EngineAt(input, at) ==
  /\ request = input.request
  /\ clock = input.clock
  /\ userSettings = input.userSettings
  /\ calendar = input.calendar
  /\ kv = input.kv
  /\ pc = at
  /\ settings = None
  /\ events = <<>>
  /\ existingPlacements = <<>>
  /\ timezoneOffset = 0
  /\ slots = <<>>
  /\ now = None
  /\ blockedTimes = <<>>
  /\ bi = 0
  /\ sortedTasks = <<>>
  /\ ti = 0
  /\ placements = <<>>
  /\ unplacedTasks = <<>>
  /\ placedTaskIds = {}
  /\ result = None
  /\ response = None
  /\ clockReads = 0

\* An auto-fit request arrives.
Start(input) ==
  /\ EngineAt(input, "request")
  /\ tzCall = None
  /\ authCall = None
  /\ subCall = None
  /\ addCall = None

\* Working hours, visible range, busy time and gap vary; a later day.
SlotInit ==
  \E wh \in SeqsUpTo(Ranges, MaxRanges), v \in VisibleRanges, gap \in Gaps,
     ev \in SeqsUpTo(EventWalls, MaxBusy), st \in SeqsUpTo(StoredWalls, MaxBusy) :
    Start(Input(UndatedTasks(MaxTasks), LaterDate, ByOffset(0),
                Instant(MidDate, 9, 40, 0, 0),
                Settings(wh, v[1], v[2], 30, gap, FALSE), ev, st))

\* The clock, the zone and the requested date vary.
ClockInit ==
  \E date \in Dates, tz \in Zones, clk \in Clocks,
     wh \in { <<Range(<<9, 0>>, <<10, 30>>)>>,
              <<Range(<<9, 30>>, <<10, 30>>), Range(<<9, 0>>, <<9, 30>>)>> },
     ev \in { <<>>, <<<<<<9, 30>>, <<10, 0>>>>>> } :
    Start(Input(UndatedTasks(MaxTasks), date, tz, clk,
                Settings(wh, <<6, 0>>, <<22, 0>>, 30, 15, FALSE), ev, <<>>))

\* The task list and the container filter vary.
TaskInit ==
  \E tasks \in SeqsUpTo(TaskAlphabet, MaxTasks), ignore \in BOOLEAN,
     wh \in { <<>>, <<Range(<<9, 0>>, <<9, 30>>)>>,
              <<Range(<<9, 0>>, <<10, 30>>), Range(<<10, 30>>, <<12, 0>>)>> } :
    Start(Input(tasks, LaterDate, NoZone, Instant(MidDate, 9, 40, 0, 0),
                Settings(wh, <<6, 0>>, <<22, 0>>, 30, 15, ignore), <<>>, <<>>))

\* The configurations of the repository's auto-fit test (business hours
\* 11:00-18:00, working hours 00:00-03:00 and 10:00-12:45, an event at
\* 11:30-12:00, a manual placement at 12:30) and of the specification's
\* example (visible range 06:00-22:00), in the zones the test runs in.
ScenarioZones ==
  { ByZone(480), ByZone(-600), ByZone(-480), ByZone(-300), ByZone(540),
    ByZone(660), ByOffset(-345), ByOffset(0), NoZone }

NightRange   == Range(<<0, 0>>, <<3, 0>>)
MorningRange == Range(<<10, 0>>, <<12, 45>>)
BusinessHours == <<<<11, 0>>, <<18, 0>>>>
FullDay       == <<<<6, 0>>, <<22, 0>>>>
BlockingEvent   == <<<<11, 30>>, <<12, 0>>>>
ManualPlacement == [taskId |-> "t1", at |-> <<12, 30>>, duration |-> 30]

ScenarioInit ==
  \E date \in Dates, tz \in ScenarioZones,
     clk \in { Instant(MidDate, 9, 40, 0, 0), Instant(MidDate, 3, 20, 0, 0) },
     v \in { BusinessHours, FullDay },
     wh \in { <<>>, <<NightRange>>, <<NightRange, MorningRange>>, <<MorningRange>> },
     ev \in { <<>>, <<BlockingEvent>> },
     st \in { <<>>, <<ManualPlacement>> },
     tasks \in { UndatedTasks(10), Tail(UndatedTasks(10)) } :
    Start(Input(tasks, date, tz, clk, Settings(wh, v[1], v[2], 30, 15, FALSE), ev, st))

Init == SlotInit \/ ClockInit \/ TaskInit \/ ScenarioInit

Spec == Init /\ [][Next]_vars

\* The same requests, served while the clock runs.
TickNext == Next \/ Tick

TickSpec == Init /\ [][TickNext]_vars

(***************************************************************************)
(* lib/timezone.ts.  An instant of Luxon is counted here in minutes since  *)
(* 1970-01-01T00:00Z (a wall time "HH:MM" has no seconds).  A DateTime is  *)
(* [isValid, ts, zone, o]: its instant, its zone and the zone's offset at  *)
(* that instant in minutes, positive east of UTC.  The zone argument of a  *)
(* call is [kind, text]: undefined, null, or a string.                     *)
(***************************************************************************)
UTC_ZONE == "UTC"
MAX_DST_COERCE_MINUTES == 180

MinutesPerDay == 24 * 60

UtcMinute(y, m, d, h, mi) == DaysFromCivil(y, m, d) * MinutesPerDay + h * 60 + mi

\* The zones Intl knows, with their rules for 2025: the offset at the start
\* of the year and the instants at which the offset changes.
LosAngeles ==
  [first |-> -480,
   changes |-> << [at |-> UtcMinute(2025, 3, 9, 10, 0), o |-> -420],
                  [at |-> UtcMinute(2025, 11, 2, 9, 0), o |-> -480] >>]
Sydney ==
  [first |-> 660,
   changes |-> << [at |-> UtcMinute(2025, 4, 5, 16, 0), o |-> 600],
                  [at |-> UtcMinute(2025, 10, 4, 16, 0), o |-> 660] >>]
LordHowe ==
  [first |-> 660,
   changes |-> << [at |-> UtcMinute(2025, 4, 5, 15, 0), o |-> 630],
                  [at |-> UtcMinute(2025, 10, 4, 15, 30), o |-> 660] >>]
IanaZones ==
  [name \in {"UTC", "America/Los_Angeles", "america/los_angeles",
             "Australia/Sydney", "Australia/Lord_Howe"} |->
     CASE name = "UTC" -> [first |-> 0, changes |-> <<>>]
       [] name \in {"America/Los_Angeles", "america/los_angeles"} -> LosAngeles
       [] name = "Australia/Sydney" -> Sydney
       [] name = "Australia/Lord_Howe" -> LordHowe]

\* IANAZone.isValidZone(zone): Intl accepts the name.
isValidZone(text) == text \in DOMAIN IanaZones

\* IANAZone.offset(ts)
RECURSIVE OffsetFrom(_, _, _, _)
OffsetFrom(changes, i, ts, o) ==
  IF i > Len(changes) \/ ts < changes[i].at THEN o
  ELSE OffsetFrom(changes, i + 1, ts, changes[i].o)

offset(zone, ts) == OffsetFrom(IanaZones[zone].changes, 1, ts, IanaZones[zone].first)

\* The offsets the zone has in the year.
OffsetsOf(zone) ==
  {IanaZones[zone].first}
    \cup {IanaZones[zone].changes[i].o : i \in 1..Len(IanaZones[zone].changes)}

\* Variant: every zone is replaced by UTC.
NormalizeAlwaysUtc(zone) == UTC_ZONE

\* Lines 8-11.
normalizeIanaTimeZone(zone) ==
  IF zone.kind # "string" \/ zone.text = "" THEN UTC_ZONE
  ELSE IF isValidZone(zone.text) THEN zone.text ELSE UTC_ZONE

DaysInMonth(y, m) ==
  IF m = 12 THEN 31 ELSE DaysFromCivil(y, m + 1, 1) - DaysFromCivil(y, m, 1)

\* Luxon's unit checks on the parsed fields (hour 24 only as 24:00).
ValidFields(dateISO, wall) ==
  /\ dateISO[2] \in 1..12
  /\ dateISO[3] >= 1
  /\ dateISO[3] <= DaysInMonth(dateISO[1], dateISO[2])
  /\ \/ wall[1] \in 0..23 /\ wall[2] \in 0..59
     \/ wall[1] = 24 /\ wall[2] = 0

\* objToLocalTS: the fields read as if they were UTC.
LocalTS(dateISO, wall) ==
  UtcMinute(dateISO[1], dateISO[2], dateISO[3], wall[1], wall[2])

Least(a, b)    == IF a < b THEN a ELSE b
Greatest(a, b) == IF a > b THEN a ELSE b

\* Variant: the provisional offset is taken without a second look.
FixOffsetUnchecked(localTS, o, tz) == <<localTS - o, o>>

\* Luxon's fixOffset: the instant and offset of a local time, from a guess
\* of the offset.
fixOffset(localTS, o, tz) ==
  LET utcGuess == localTS - o
      o2 == offset(tz, utcGuess)
  IN  IF o = o2 THEN <<utcGuess, o>>
      ELSE LET utcGuess2 == utcGuess - (o2 - o)
               o3 == offset(tz, utcGuess2)
           IN  IF o2 = o3 THEN <<utcGuess2, o2>>
               ELSE <<localTS - Least(o2, o3), Greatest(o2, o3)>>

InvalidDateTime(zone) == [isValid |-> FALSE, ts |-> 0, zone |-> zone, o |-> 0]

\* DateTime.fromISO(`${dateISO}T${wallTimeHHMM}`, { zone }); `tsNow` is the
\* instant whose offset Luxon takes as its first guess.
fromISO(dateISO, wall, zone, tsNow) ==
  IF ~ValidFields(dateISO, wall) THEN InvalidDateTime(zone)
  ELSE LET r == fixOffset(LocalTS(dateISO, wall), offset(zone, tsNow), zone)
       IN  [isValid |-> TRUE, ts |-> r[1], zone |-> zone, o |-> r[2]]

\* DateTime.plus({ minutes })
plus(dt, minutes) ==
  IF ~dt.isValid THEN dt
  ELSE [dt EXCEPT !.ts = dt.ts + minutes, !.o = offset(dt.zone, dt.ts + minutes)]

\* DateTime.fromJSDate(date, { zone: UTC_ZONE }).setZone(zone)
setZone(ts, zone) == [isValid |-> TRUE, ts |-> ts, zone |-> zone, o |-> offset(zone, ts)]

\* The calendar date and time of day a DateTime shows.
LocalFields(dt) ==
  LET l == dt.ts + dt.o
  IN  [date |-> CivilFromDays(l \div MinutesPerDay),
       hour |-> (l % MinutesPerDay) \div 60,
       minute |-> l % 60]

\* The arguments the calls are made with.
Undefined  == [kind |-> "undefined", text |-> ""]
Null       == [kind |-> "null", text |-> ""]
Str(text)  == [kind |-> "string", text |-> text]

ZoneArgs ==
  { Undefined, Null, Str(""), Str("Not/AZone"), Str("UTC"),
    Str("America/Los_Angeles"), Str("america/los_angeles"),
    Str("Australia/Sydney"), Str("Australia/Lord_Howe") }

\* Days of the changes of offset, a plain day, and two that are no dates.
DateArgs ==
  { <<2025, 3, 9>>, <<2025, 11, 2>>, <<2025, 4, 6>>, <<2025, 10, 5>>,
    <<2025, 12, 27>>, <<2025, 2, 30>>, <<2025, 13, 1>> }

WallArgs ==
  { <<0, 0>>, <<1, 30>>, <<1, 59>>, <<2, 0>>, <<2, 15>>, <<2, 30>>, <<2, 59>>,
    <<3, 0>>, <<23, 59>>, <<24, 0>>, <<25, 0>>, <<2, 60>> }

\* Instants at which a call is made: in the northern winter and summer.
CallInstants == { UtcMinute(2025, 1, 15, 12, 0), UtcMinute(2025, 7, 15, 12, 0) }

engine == <<kv, env, pc, route, slots, now, blockedTimes, bi, loop, result, response,
            clockReads>>

\* wallTimeOnDateToUtc, lines 62-64.
ParseWallTime ==
  /\ tzCall # None
  /\ tzCall.pc = "call"
  /\ LET normalizedZone == normalizeIanaTimeZone(tzCall.zone)
     IN  tzCall' = [tzCall EXCEPT
           !.pc = "coerce",
           !.normalizedZone = normalizedZone,
           !.dt = fromISO(tzCall.dateISO, tzCall.wallTimeHHMM, normalizedZone,
                          tzCall.tsNow)]
  /\ UNCHANGED <<engine, authCall, subCall, addCall>>

\* Variant: the parsed DateTime is returned whether valid or not.
CoerceUnchecked ==
  /\ tzCall # None
  /\ tzCall.pc = "coerce"
  /\ tzCall' = [tzCall EXCEPT !.pc = "toUTC", !.coerced = tzCall.dt]
  /\ UNCHANGED <<engine, authCall, subCall, addCall>>

\* coerceDateTimeToValidWallTime, line 88.
CoerceValid ==
  /\ tzCall # None
  /\ tzCall.pc = "coerce"
  /\ tzCall.dt.isValid
  /\ tzCall' = [tzCall EXCEPT !.pc = "toUTC", !.coerced = tzCall.dt]
  /\ UNCHANGED <<engine, authCall, subCall, addCall>>

\* coerceDateTimeToValidWallTime, lines 92-93: the loop is entered.
CoerceBase ==
  /\ tzCall # None
  /\ tzCall.pc = "coerce"
  /\ ~tzCall.dt.isValid
  /\ tzCall' = [tzCall EXCEPT
       !.pc = "loop",
       !.base = fromISO(tzCall.dateISO, tzCall.wallTimeHHMM, tzCall.normalizedZone,
                        tzCall.tsNow),
       !.minutes = 1]
  /\ UNCHANGED <<engine, authCall, subCall, addCall>>

\* coerceDateTimeToValidWallTime, lines 93-96: one iteration.
CoerceStep ==
  /\ tzCall # None
  /\ tzCall.pc = "loop"
  /\ tzCall.minutes <= MAX_DST_COERCE_MINUTES
  /\ LET candidate == plus(tzCall.base, tzCall.minutes)
     IN  tzCall' = IF candidate.isValid
                   THEN [tzCall EXCEPT !.pc = "toUTC", !.coerced = candidate]
                   ELSE [tzCall EXCEPT !.minutes = tzCall.minutes + 1]
  /\ UNCHANGED <<engine, authCall, subCall, addCall>>

\* coerceDateTimeToValidWallTime, lines 98-100.
CoerceThrow ==
  /\ tzCall # None
  /\ tzCall.pc = "loop"
  /\ tzCall.minutes > MAX_DST_COERCE_MINUTES
  /\ tzCall' = [tzCall EXCEPT !.pc = "thrown"]
  /\ UNCHANGED <<engine, authCall, subCall, addCall>>

\* wallTimeOnDateToUtc, line 66.
ToJSDate ==
  /\ tzCall # None
  /\ tzCall.pc = "toUTC"
  /\ tzCall' = [tzCall EXCEPT !.pc = "returned", !.utc = tzCall.coerced.ts]
  /\ UNCHANGED <<engine, authCall, subCall, addCall>>

\* utcDateToZoneDateTime on the instant returned, lines 69-72.
utcDateToZoneDateTime ==
  /\ tzCall # None
  /\ tzCall.pc = "returned"
  /\ tzCall' = [tzCall EXCEPT
       !.pc = "back",
       !.back = setZone(tzCall.utc, normalizeIanaTimeZone(tzCall.zone))]
  /\ UNCHANGED <<engine, authCall, subCall, addCall>>

TzNext ==
  \/ ParseWallTime
  \/ CoerceValid
  \/ CoerceBase
  \/ CoerceStep
  \/ CoerceThrow
  \/ ToJSDate
  \/ utcDateToZoneDateTime

\* No auto-fit request is being served.
IdleInput ==
  Input(<<>>, LaterDate, NoZone, 0,
        Settings(<<>>, <<0, 0>>, <<0, 0>>, 30, 0, FALSE), <<>>, <<>>)

TzInit ==
  /\ EngineAt(IdleInput, "idle")
  /\ authCall = None
  /\ subCall = None
  /\ addCall = None
  /\ \E zone \in ZoneArgs, dateISO \in DateArgs, wall \in WallArgs,
        tsNow \in CallInstants :
       tzCall = [pc |-> "call", zone |-> zone, dateISO |-> dateISO,
                 wallTimeHHMM |-> wall, tsNow |-> tsNow,
                 normalizedZone |-> UTC_ZONE,
                 dt |-> InvalidDateTime(UTC_ZONE),
                 base |-> InvalidDateTime(UTC_ZONE),
                 coerced |-> InvalidDateTime(UTC_ZONE),
                 minutes |-> 0, utc |-> 0,
                 back |-> InvalidDateTime(UTC_ZONE)]

TzSpec == TzInit /\ [][TzNext]_vars

(***************************************************************************)
(* Requests whose date is no calendar date ("2025-12-32") or whose stored  *)
(* settings have a task duration of zero or less.                          *)
(***************************************************************************)
NoDate == <<2025, 12, 32>>

MalformedInit ==
  \E date \in {NoDate, LaterDate}, duration \in {30, 0, -15},
     tz \in {ByOffset(0), ByZone(480), NoZone},
     tasks \in SeqsUpTo({Task("a", None, FALSE), Task("b", None, FALSE)}, MaxTasks),
     wh \in { <<>>, <<Range(<<9, 0>>, <<10, 30>>)>> },
     st \in SeqsUpTo(StoredWalls, MaxBusy) :
    /\ date = NoDate \/ duration <= 0
    /\ Start(Input(tasks, date, tz, Instant(MidDate, 9, 40, 0, 0),
                   Settings(wh, <<6, 0>>, <<22, 0>>, duration, 15, FALSE), <<>>, st))

MalformedSpec == MalformedInit /\ [][Next]_vars

(***************************************************************************)
(* getAuthSession and the settings routes.  A missing header, email or     *)
(* token is the empty string (null and "" are both falsy).  authCall is    *)
(* the frame of one request: what it carries, the process environment,     *)
(* the locals of getTestSessionFromRequest and getAuthSession, the stored  *)
(* settings of every user and the response.                                *)
(***************************************************************************)
Users == {"victim@example.com", "attacker@example.com", "tester@example.com"}

\* What auth() finds: no session, a failure, or the session of a user.
NextAuthOutcomes == {"none", "throws", "attacker@example.com"}

InitialSettings == [u \in Users |-> <<"settings of", u>>]

NoSession == [accessToken |-> "", email |-> ""]

TestEnvironment == authCall.NODE_ENV = "test" \/ authCall.VITEST

\* getTestSessionFromRequest, lines 837-844.
ReadRequestHeaders ==
  /\ authCall # None
  /\ authCall.pc = "start"
  /\ authCall' = [authCall EXCEPT
       !.pc = "nextHeaders",
       !.testToken = authCall.headers.token,
       !.testEmail = authCall.headers.email]
  /\ UNCHANGED <<engine, tzCall, subCall, addCall>>

\* getTestSessionFromRequest, lines 847-855: headers() of the same request,
\* or a context in which headers() throws.
ReadNextHeaders ==
  /\ authCall # None
  /\ authCall.pc = "nextHeaders"
  /\ authCall' =
       IF authCall.testToken = "" /\ authCall.headersAvailable
       THEN [authCall EXCEPT !.pc = "decide",
                             !.testToken = authCall.headers.token,
                             !.testEmail = authCall.headers.email]
       ELSE [authCall EXCEPT !.pc = "decide"]
  /\ UNCHANGED <<engine, tzCall, subCall, addCall>>

\* getTestSessionFromRequest, lines 857-862.
HeaderSession ==
  /\ authCall # None
  /\ authCall.pc = "decide"
  /\ authCall.testToken # "" /\ authCall.testEmail # ""
  /\ authCall' = [authCall EXCEPT
       !.pc = "auth",
       !.testSession = Some([accessToken |-> authCall.testToken,
                             userEmail |-> authCall.testEmail])]
  /\ UNCHANGED <<engine, tzCall, subCall, addCall>>

\* getTestSessionFromRequest, lines 865-873: the session saved in
\* .test-session.json.
FileSession ==
  /\ authCall # None
  /\ authCall.pc = "decide"
  /\ ~(authCall.testToken # "" /\ authCall.testEmail # "")
  /\ TestEnvironment
  /\ authCall.sessionFile # None
  /\ authCall' = [authCall EXCEPT
       !.pc = "auth",
       !.testSession = Some([accessToken |-> "file token",
                             userEmail |-> authCall.sessionFile[1]])]
  /\ UNCHANGED <<engine, tzCall, subCall, addCall>>

\* getTestSessionFromRequest, line 876.
NoTestSession ==
  /\ authCall # None
  /\ authCall.pc = "decide"
  /\ ~(authCall.testToken # "" /\ authCall.testEmail # "")
  /\ ~(TestEnvironment /\ authCall.sessionFile # None)
  /\ authCall' = [authCall EXCEPT !.pc = "auth", !.testSession = None]
  /\ UNCHANGED <<engine, tzCall, subCall, addCall>>

\* getAuthSession, lines 15-23.
UseTestSession ==
  /\ authCall # None
  /\ authCall.pc = "auth"
  /\ authCall.testSession # None
  /\ authCall' = [authCall EXCEPT
       !.pc = "route",
       !.session = [accessToken |-> authCall.testSession[1].accessToken,
                    email |-> authCall.testSession[1].userEmail]]
  /\ UNCHANGED <<engine, tzCall, subCall, addCall>>

\* getAuthSession, lines 26-32.
UseNextAuth ==
  /\ authCall # None
  /\ authCall.pc = "auth"
  /\ authCall.testSession = None
  /\ authCall' = [authCall EXCEPT
       !.pc = "route",
       !.session = IF authCall.nextAuth \in {"none", "throws"}
                   THEN NoSession
                   ELSE [accessToken |-> "oauth token", email |-> authCall.nextAuth]]
  /\ UNCHANGED <<engine, tzCall, subCall, addCall>>

\* GET and PUT, lines 185-187 and 201-203.
Unauthorized ==
  /\ authCall # None
  /\ authCall.pc = "route"
  /\ authCall.session.email = ""
  /\ authCall' = [authCall EXCEPT !.pc = "done", !.response = <<401>>]
  /\ UNCHANGED <<engine, tzCall, subCall, addCall>>

\* GET, lines 189-191.
SettingsGET ==
  /\ authCall # None
  /\ authCall.pc = "route"
  /\ authCall.method = "GET"
  /\ authCall.session.email # ""
  /\ authCall' = [authCall EXCEPT
       !.pc = "done",
       !.response = <<200, authCall.store[authCall.session.email]>>]
  /\ UNCHANGED <<engine, tzCall, subCall, addCall>>

\* PUT, lines 205-216.
SettingsPUT ==
  /\ authCall # None
  /\ authCall.pc = "route"
  /\ authCall.method = "PUT"
  /\ authCall.session.email # ""
  /\ authCall' = [authCall EXCEPT
       !.pc = "done",
       !.store = [authCall.store EXCEPT ![authCall.session.email] = authCall.body],
       !.response = <<200, authCall.body>>]
  /\ UNCHANGED <<engine, tzCall, subCall, addCall>>

AuthNext ==
  \/ ReadRequestHeaders
  \/ ReadNextHeaders
  \/ HeaderSession
  \/ FileSession
  \/ NoTestSession
  \/ UseTestSession
  \/ UseNextAuth
  \/ Unauthorized
  \/ SettingsGET
  \/ SettingsPUT

AuthInit ==
  /\ EngineAt(IdleInput, "idle")
  /\ tzCall = None
  /\ subCall = None
  /\ addCall = None
  /\ \E method \in {"GET", "PUT"}, token \in {"", "any token"},
        email \in {"", "victim@example.com"},
        nodeEnv \in {"test", "production"}, vitest \in BOOLEAN,
        nextAuth \in NextAuthOutcomes, available \in BOOLEAN,
        file \in {None, Some("tester@example.com"), Some("")} :
       authCall = [pc |-> "start", method |-> method,
                   headers |-> [token |-> token, email |-> email],
                   body |-> <<"settings sent with the request">>,
                   NODE_ENV |-> nodeEnv, VITEST |-> vitest,
                   nextAuth |-> nextAuth, headersAvailable |-> available,
                   sessionFile |-> file,
                   testToken |-> "", testEmail |-> "",
                   testSession |-> None, session |-> NoSession,
                   store |-> InitialSettings, response |-> None]

AuthSpec == AuthInit /\ [][AuthNext]_vars

(***************************************************************************)
(* _subtractTimeFromSlots on its own: a slot list and a block over the     *)
(* instants 0..MaxTime, the function applied once and then once more to    *)
(* its own result.                                                         *)
(***************************************************************************)
MaxSlots == 2       \* slots in the list
MaxTime  == 3       \* the instants are 0..MaxTime

SlotArgs == {TimeSlot(s, e) : s \in 0..MaxTime, e \in 0..MaxTime}

\* First application.
SubtractOnce ==
  /\ subCall # None
  /\ subCall.pc = "call"
  /\ subCall' = [subCall EXCEPT
       !.pc = "once",
       !.once = _subtractTimeFromSlots(subCall.slots, subCall.blockStart,
                                       subCall.blockEnd)]
  /\ UNCHANGED <<engine, tzCall, authCall, addCall>>

\* Second application, with the same block.
SubtractAgain ==
  /\ subCall # None
  /\ subCall.pc = "once"
  /\ subCall' = [subCall EXCEPT
       !.pc = "twice",
       !.twice = _subtractTimeFromSlots(subCall.once, subCall.blockStart,
                                        subCall.blockEnd)]
  /\ UNCHANGED <<engine, tzCall, authCall, addCall>>

SubNext ==
  \/ SubtractOnce
  \/ SubtractAgain

SubInit ==
  /\ EngineAt(IdleInput, "idle")
  /\ tzCall = None
  /\ authCall = None
  /\ addCall = None
  /\ \E list \in SeqsUpTo(SlotArgs, MaxSlots),
        blockStart \in 0..MaxTime, blockEnd \in 0..MaxTime :
       subCall = [pc |-> "call", slots |-> list,
                  blockStart |-> blockStart, blockEnd |-> blockEnd,
                  once |-> <<>>, twice |-> <<>>]

SubSpec == SubInit /\ [][SubNext]_vars

(***************************************************************************)
(* Requests that name their zone: zones of every offset from -12:00 to     *)
(* +14:00, those off the whole hour among them, and an identifier that     *)
(* names no zone.                                                          *)
(***************************************************************************)
ZoneOffsets == { -720, -570, -300, 0, 330, 345, 480, 765, 780, 840 }

NamedZones == { ByZone(o) : o \in ZoneOffsets } \cup { UnknownZone, NoZone, ByOffset(-330) }

ZoneInit ==
  \E date \in Dates, tz \in NamedZones,
     tasks \in { UndatedTasks(MaxTasks),
                 <<Task("a", None, FALSE), Task("a", None, FALSE)>> },
     wh \in { <<Range(<<9, 0>>, <<10, 0>>)>>,
              <<Range(<<9, 0>>, <<10, 0>>), Range(<<13, 0>>, <<14, 0>>)>> },
     ev \in { <<>>, <<<<<<9, 30>>, <<10, 0>>>>>> } :
    Start(Input(tasks, date, tz, Instant(EarlierDate, 1, 0, 0, 0),
                Settings(wh, <<6, 0>>, <<22, 0>>, 30, 15, FALSE), ev, <<>>))

ZoneNext == Next \/ POSTFails

ZoneSpec == ZoneInit /\ [][ZoneNext]_vars

(***************************************************************************)
(* The stored placement list over several requests.  The same client       *)
(* sends its auto-fit request again once the last one is answered; the     *)
(* store starts empty and nothing is deleted.                              *)
(***************************************************************************)
MaxStored == 4

\* The next request of the client arrives: the handler starts afresh, the
\* store keeps what the last request wrote.
NextRequest ==
  /\ pc = "done"
  /\ Len(kv) < MaxStored
  /\ pc' = "request"
  /\ settings' = None
  /\ events' = <<>>
  /\ existingPlacements' = <<>>
  /\ timezoneOffset' = 0
  /\ slots' = <<>>
  /\ now' = None
  /\ blockedTimes' = <<>>
  /\ bi' = 0
  /\ sortedTasks' = <<>>
  /\ ti' = 0
  /\ placements' = <<>>
  /\ unplacedTasks' = <<>>
  /\ placedTaskIds' = {}
  /\ result' = None
  /\ response' = None
  /\ clockReads' = 0
  /\ UNCHANGED <<kv, env, side>>

RepeatInit ==
  \E tz \in {ByOffset(0), ByZone(-300)}, gap \in Gaps,
     tasks \in { UndatedTasks(1), UndatedTasks(2), UndatedTasks(MaxTasks),
                 <<Task("a", None, FALSE), Task("a", None, FALSE)>> },
     wh \in { <<Range(<<9, 0>>, <<10, 30>>)>>, <<Range(<<9, 0>>, <<12, 0>>)>> } :
    Start(Input(tasks, LaterDate, tz, Instant(MidDate, 9, 40, 0, 0),
                Settings(wh, <<6, 0>>, <<22, 0>>, 30, gap, FALSE), <<>>, <<>>))

RepeatNext == Next \/ NextRequest

RepeatSpec == RepeatInit /\ [][RepeatNext]_vars

(***************************************************************************)
(* An auto-fit request and a POST /api/placements of the same user and     *)
(* date, served at the same time.  Each reads the stored list             *)
(* (getPlacements) and writes it back (setPlacements); the steps of the    *)
(* two interleave between the reads and writes of the store.               *)
(***************************************************************************)
\* addPlacement, line 359: the stored list is read.
AddPlacementGet ==
  /\ addCall # None
  /\ addCall.pc = "call"
  /\ addCall' = [addCall EXCEPT !.pc = "read", !.placements = kv]
  /\ UNCHANGED <<engine, tzCall, authCall, subCall>>

\* addPlacement, lines 360-362, and the response of the route (lines 51-52):
\* the list read, with the placement pushed, is written and returned.
AddPlacementSet ==
  /\ addCall # None
  /\ addCall.pc = "read"
  /\ LET placements_ == Append(addCall.placements, addCall.placement)
     IN  /\ kv' = placements_
         /\ addCall' = [addCall EXCEPT !.pc = "done", !.placements = placements_,
                                       !.response = placements_]
  /\ UNCHANGED <<env, pc, route, slots, now, blockedTimes, bi, loop, result, response,
                 clockReads, tzCall, authCall, subCall>>

\* The placements the client of /api/placements asks to add.
AddedWalls ==
  { [taskId |-> "m", at |-> <<9, 0>>, duration |-> 30],
    [taskId |-> "m", at |-> <<12, 30>>, duration |-> 30] }

ConcurrentInit ==
  \E tz \in {ByOffset(0), ByZone(-300)}, gap \in Gaps, added \in AddedWalls,
     tasks \in { UndatedTasks(1), UndatedTasks(MaxTasks),
                 <<Task("a", None, FALSE), Task("a", None, FALSE)>> },
     st \in SeqsUpTo(StoredWalls, MaxBusy) :
    /\ EngineAt(Input(tasks, LaterDate, tz, Instant(MidDate, 9, 40, 0, 0),
                      Settings(<<Range(<<9, 0>>, <<10, 30>>)>>, <<6, 0>>, <<22, 0>>,
                               30, gap, FALSE), <<>>, st),
                "request")
    /\ tzCall = None
    /\ authCall = None
    /\ subCall = None
    /\ addCall = [pc |-> "call", placement |-> Stored(LaterDate, tz, added),
                  placements |-> <<>>, response |-> <<>>]

ConcurrentNext == Next \/ AddPlacementGet \/ AddPlacementSet

ConcurrentSpec == ConcurrentInit /\ [][ConcurrentNext]_vars

(***************************************************************************)
(* Properties.  The vocabulary they share.                                 *)
(***************************************************************************)
Placing  == pc \in {"place", "save", "done"}
Returned == pc \in {"save", "done"}
Answered == pc = "done"

Indices(seq) == 1..Len(seq)
Elems(seq) == {seq[i] : i \in 1..Len(seq)}

Gap      == settings.minTimeBetweenTasks * MsPerMinute
Duration == settings.defaultTaskDuration * MsPerMinute

\* The interval [PStart(p), PEnd(p)) of a placement.
PStart(p) == DateParse(p.startTime)
PEnd(p)   == PStart(p) + p.duration * MsPerMinute

\* The half-open intervals [a1, a2) and [b1, b2) share an instant.
Intersect(a1, a2, b1, b2) == a1 < a2 /\ b1 < b2 /\ a1 < b2 /\ b1 < a2

\* The instant at which the wall clock of the offset passed to autoFitTasks
\* reads `wall` on the requested date.
LocalInstant(wall) ==
  DateUTC(request.date[1], request.date[2], request.date[3], wall[1], wall[2])
    + timezoneOffset * MsPerMinute

\* The requested date is the calendar date of `now` on that wall clock.
IsToday ==
  /\ LocalInstant(<<0, 0>>) <= now
  /\ now < LocalInstant(<<0, 0>>) + MsPerDay

LocalTimes(ps) == [i \in 1..Len(ps) |-> PStart(ps[i]) - LocalInstant(<<0, 0>>)]
AtWall(h, m) == h * MsPerHour + m * MsPerMinute

(***************************************************************************)
(* C1  No two placements of one result overlap, and the later of any two   *)
(* starts no earlier than the end of the earlier plus minTimeBetweenTasks. *)
(* The code breaks it when a later working-hours range lies before an      *)
(* earlier one in time.                                                    *)
(***************************************************************************)
C1_PlacementsKeepGap ==
  Placing =>
    \A i, j \in Indices(placements) :
      i # j /\ PStart(placements[i]) <= PStart(placements[j])
        => PStart(placements[j]) >= PEnd(placements[i]) + Gap

(***************************************************************************)
(* C2  No new placement intersects the buffered interval                   *)
(* [s - minTimeBetweenTasks, e + minTimeBetweenTasks) of a timed event or  *)
(* of an existing placement.                                               *)
(***************************************************************************)
TimedEvents == {e \in Elems(calendar) : e.start.dateTime # None /\ e.end.dateTime # None}

OutsideVisible(r) ==
  \/ LocalInstant(r.end) <= LocalInstant(settings.slotMinTime)
  \/ LocalInstant(r.start) >= LocalInstant(settings.slotMaxTime)

C3_InsideWorkingAndVisible ==
  Placing =>
    /\ \A p \in Elems(placements) :
         /\ \E r \in Elems(settings.workingHours) :
              /\ LocalInstant(r.start) <= PStart(p)
              /\ PStart(p) + Duration <= LocalInstant(r.end)
         /\ LocalInstant(settings.slotMinTime) <= PStart(p)
         /\ PStart(p) + Duration <= LocalInstant(settings.slotMaxTime)
    /\ (\A r \in Elems(settings.workingHours) : OutsideVisible(r)) => placements = <<>>

\* Working hours 00:00-03:00 under the visible range 11:00-18:00: all ten
\* tasks stay unplaced.
C3_Witness ==
  /\ Answered
  /\ settings.workingHours = <<NightRange>>
  /\ <<settings.slotMinTime, settings.slotMaxTime>> = BusinessHours
  /\ response.placements = <<>>
  /\ Len(response.unplacedTasks) = 10

(***************************************************************************)
(* C4  Without working hours nothing is placed and the tasks come back as  *)
(* unplaced.  As claimed (all input tasks, whatever ignoreContainerTasks)  *)
(* it fails: the container filter runs first.                              *)
(***************************************************************************)
Count(seq, x) == Cardinality({i \in Indices(seq) : seq[i] = x})
SameMembers(s1, s2) ==
  /\ Len(s1) = Len(s2)
  /\ \A x \in Elems(s1) \cup Elems(s2) : Count(s1, x) = Count(s2, x)

C4_AllInputTasksUnplaced ==
  Returned /\ settings.workingHours = <<>> =>
    /\ result.placements = <<>>
    /\ SameMembers(result.unplacedTasks, request.tasks)

\* Amended: the tasks that pass the container filter come back as unplaced.
PassesFilter(t) == ~(settings.ignoreContainerTasks /\ t.hasSubtasks)

C4_FilteredTasksUnplaced ==
  Returned /\ settings.workingHours = <<>> =>
    /\ result.placements = <<>>
    /\ SameMembers(result.unplacedTasks, SelectSeq(request.tasks, PassesFilter))

\* No working hours, a container task filtered out, another task returned.
C4_Witness ==
  /\ Returned
  /\ settings.workingHours = <<>>
  /\ settings.ignoreContainerTasks
  /\ \E t \in Elems(request.tasks) : t.hasSubtasks
  /\ result.unplacedTasks # <<>>

(***************************************************************************)
(* C5  Tasks are considered, and placements listed, in priority order:     *)
(* dated before undated, dated by ascending due date, ties in input order. *)
(***************************************************************************)
\* The sort key of a task: its due instant, or <<>> without one.
DueKey(t) == IF t.due = None THEN None ELSE Some(DateParse(t.due[1]))
KeyBefore(k1, k2) == k1 # None /\ (k2 = None \/ k1[1] < k2[1])

InPriorityOrder(seq, input) ==
  /\ \A i, j \in Indices(seq) : i < j => ~KeyBefore(DueKey(seq[j]), DueKey(seq[i]))
  /\ \A k \in {DueKey(t) : t \in Elems(input)} :
       LET HasKey(t) == DueKey(t) = k
       IN  SelectSeq(seq, HasKey) = SelectSeq(input, HasKey)

\* The tasks of the placements, in the order of the placements.
PlacedTasks ==
  [i \in Indices(placements) |->
     CHOOSE t \in Elems(sortedTasks) : t.id = placements[i].taskId]

IsSubsequence(sub, seq) ==
  \E f \in [Indices(sub) -> Indices(seq)] :
    /\ \A i \in Indices(sub) : seq[f[i]] = sub[i]
    /\ \A i, j \in Indices(sub) : i < j => f[i] < f[j]

C5_PriorityOrder ==
  Placing =>
    /\ InPriorityOrder(sortedTasks, SelectSeq(request.tasks, PassesFilter))
    /\ IsSubsequence(PlacedTasks, sortedTasks)
    /\ \A i, j \in Indices(placements) :
         i < j => ~KeyBefore(DueKey(PlacedTasks[j]), DueKey(PlacedTasks[i]))

\* Input [b (due 5 Jan), c (due 3 Jan), a (no due)] is placed in the order c, b, a.
C5_Witness ==
  /\ Answered
  /\ [i \in Indices(request.tasks) |-> request.tasks[i].id] = <<"b", "c", "a">>
  /\ [i \in Indices(response.placements) |-> response.placements[i].taskId]
       = <<"c", "b", "a">>

(***************************************************************************)
(* C6  When the requested date is today, every available slot and every    *)
(* placement starts at or after `now` rounded up to the next 15-minute     *)
(* boundary (at `now` itself when it is on a boundary).                    *)
(***************************************************************************)
Trimmed == pc \in {"subtract", "place", "save", "done"}

\* The least multiple of the slot interval that is not before t.
NextBoundary(t) ==
  LET q == TIME_SLOT_INTERVAL * MsPerMinute IN ((t + q - 1) \div q) * q

C6_TodayStartsAfterRoundedNow ==
  Trimmed /\ IsToday =>
    /\ \A i \in Indices(slots) : slots[i].start >= NextBoundary(now)
    /\ \A p \in Elems(placements) : PStart(p) >= NextBoundary(now)

\* Today, `now` between two boundaries, a task placed at the next boundary.
C6_Witness ==
  /\ Answered
  /\ IsToday
  /\ NextBoundary(now) > now
  /\ \E p \in Elems(placements) : PStart(p) = NextBoundary(now)

(***************************************************************************)
(* C7  No placement starts before the instant the invocation read as       *)
(* `now`, whatever the requested date.  The code breaks it for a date      *)
(* before today: past time is cut out only when the date is today.         *)
(***************************************************************************)
C7_NeverInThePast ==
  Placing => \A p \in Elems(placements) : PStart(p) >= now

(***************************************************************************)
(* C8  The test's steps 4-5: visible range 11:00-18:00, working hours      *)
(* 00:00-03:00 and 10:00-12:45, nothing busy, not today, duration 30, gap  *)
(* 15, ten undated tasks: two placements, at local 11:00 and 11:45, each   *)
(* of 30 minutes, and eight unplaced tasks, for every zone offset.         *)
(***************************************************************************)
Uses(visible, workingHours) ==
  /\ <<settings.slotMinTime, settings.slotMaxTime>> = visible
  /\ settings.workingHours = workingHours
  /\ settings.defaultTaskDuration = 30
  /\ settings.minTimeBetweenTasks = 15

TwoMorningPlacements ==
  /\ LocalTimes(result.placements) = <<AtWall(11, 0), AtWall(11, 45)>>
  /\ \A p \in Elems(result.placements) : p.duration = 30
  /\ Len(result.unplacedTasks) = 8

C8_TestSteps4And5 ==
  /\ Returned
  /\ Uses(BusinessHours, <<NightRange, MorningRange>>)
  /\ events = <<>> /\ existingPlacements = <<>>
  /\ request.tasks = UndatedTasks(10)
  /\ ~IsToday
  => TwoMorningPlacements

\* The scenario east of UTC by a zone name, on a later day.
C8_Witness ==
  /\ Answered
  /\ Uses(BusinessHours, <<NightRange, MorningRange>>)
  /\ calendar = <<>> /\ existingPlacements = <<>>
  /\ request.tasks = UndatedTasks(10)
  /\ request.timezone = ByZone(660).timezone
  /\ request.date = LaterDate
  /\ Len(response.placements) = 2

(***************************************************************************)
(* C9  The specification's example: working hours 10:00-12:45, visible     *)
(* range 06:00-22:00, nothing busy, ten undated tasks, duration 30, gap    *)
(* 15: two placements, 11:00-11:30 and 11:45-12:15, eight unplaced.  It    *)
(* fails: under that visible range the window opens at 10:00.              *)
(***************************************************************************)
C9_ExampleFullDay ==
  /\ Returned
  /\ Uses(FullDay, <<MorningRange>>)
  /\ events = <<>> /\ existingPlacements = <<>>
  /\ request.tasks = UndatedTasks(10)
  /\ ~IsToday
  => TwoMorningPlacements

\* Amended: the visible range is 11:00-18:00 and the date is not today.
C9_ExampleBusinessHours ==
  /\ Returned
  /\ Uses(BusinessHours, <<MorningRange>>)
  /\ events = <<>> /\ existingPlacements = <<>>
  /\ request.tasks = UndatedTasks(10)
  /\ ~IsToday
  => TwoMorningPlacements

C9_Witness ==
  /\ Answered
  /\ Uses(BusinessHours, <<MorningRange>>)
  /\ calendar = <<>> /\ existingPlacements = <<>>
  /\ request.tasks = UndatedTasks(10)
  /\ ~IsToday
  /\ Len(response.unplacedTasks) = 8

(***************************************************************************)
(* C10  The test's steps 7-8: as C8 with an event at 11:30-12:00 and a     *)
(* manual placement at 12:30-13:00, nine undated tasks: one new placement, *)
(* at local 11:00, and two entries in allPlacements.  The code places      *)
(* nothing: the event's buffer reaches back to 11:15.                      *)
(***************************************************************************)
C10_TestSteps7And8 ==
  /\ Answered
  /\ Uses(BusinessHours, <<NightRange, MorningRange>>)
  /\ Len(events) = 1 /\ Len(existingPlacements) = 1
  /\ request.tasks = Tail(UndatedTasks(10))
  /\ ~IsToday
  => /\ LocalTimes(response.placements) = <<AtWall(11, 0)>>
     /\ Len(response.allPlacements) = 2
     /\ {PStart(p) - LocalInstant(<<0, 0>>) : p \in Elems(response.allPlacements)}
          = {AtWall(11, 0), AtWall(12, 30)}

(***************************************************************************)
(* lib/timezone.ts: the vocabulary of C11 to C14.                          *)
(***************************************************************************)
TzParsed   == tzCall # None /\ tzCall.pc # "call"
TzReturned == tzCall # None /\ tzCall.pc \in {"returned", "back"}
TzThrown   == tzCall # None /\ tzCall.pc = "thrown"
TzBack     == tzCall # None /\ tzCall.pc = "back"

\* Some instant of the zone shows the local time `l` (fields read as UTC).
LocalExists(l, zone) == \E o \in OffsetsOf(zone) : offset(zone, l - o) = o

\* The wall time of the call is a time of day the zone has on the date.
WallExists ==
  /\ ValidFields(tzCall.dateISO, tzCall.wallTimeHHMM)
  /\ tzCall.wallTimeHHMM[1] <= 23
  /\ LocalExists(LocalTS(tzCall.dateISO, tzCall.wallTimeHHMM), tzCall.normalizedZone)

\* The wall time of the call falls in a gap of the zone's local time.
InGap ==
  /\ ValidFields(tzCall.dateISO, tzCall.wallTimeHHMM)
  /\ tzCall.wallTimeHHMM[1] <= 23
  /\ ~LocalExists(LocalTS(tzCall.dateISO, tzCall.wallTimeHHMM), tzCall.normalizedZone)

\* The first local minute after `l` that the zone has.
FirstValidLocal(l, zone) ==
  l + CHOOSE k \in 1..MAX_DST_COERCE_MINUTES :
        /\ LocalExists(l + k, zone)
        /\ \A j \in 1..(k - 1) : ~LocalExists(l + j, zone)

(***************************************************************************)
(* C11  normalizeIanaTimeZone returns for every argument (undefined, null, *)
(* the empty string, any string) and never throws: a valid IANA zone comes *)
(* back unchanged, anything else comes back as "UTC".                      *)
(***************************************************************************)
C11_NormalizeTotal ==
  /\ tzCall # None /\ tzCall.pc = "call" => ENABLED ParseWallTime
  /\ TzParsed =>
       tzCall.normalizedZone =
         IF tzCall.zone.kind = "string" /\ tzCall.zone.text \in DOMAIN IanaZones
         THEN tzCall.zone.text
         ELSE "UTC"

\* "Not/AZone" has come back as "UTC".
C11_Witness ==
  /\ TzParsed
  /\ tzCall.zone = Str("Not/AZone")
  /\ tzCall.normalizedZone = "UTC"

(***************************************************************************)
(* C12  For a wall time in a spring-forward gap wallTimeOnDateToUtc        *)
(* returns an instant whose local time is on the same date and is the      *)
(* first valid local minute after the requested wall time (03:00 for 02:30 *)
(* on 2025-03-09 in America/Los_Angeles).  The code returns the wall time  *)
(* moved on by the length of the gap (03:30).                              *)
(***************************************************************************)
C12_GapCoercedToFirstValidMinute ==
  TzBack /\ InGap =>
    /\ LocalFields(tzCall.back).date = tzCall.dateISO
    /\ tzCall.back.ts + tzCall.back.o =
         FirstValidLocal(LocalTS(tzCall.dateISO, tzCall.wallTimeHHMM),
                         tzCall.normalizedZone)

(***************************************************************************)
(* C13  The coercion ends after at most 180 one-minute steps.  It returns  *)
(* the parsed DateTime when that is valid, otherwise the first valid       *)
(* candidate base + k minutes (1 <= k <= 180); it throws only when the     *)
(* parsed DateTime and all 180 candidates are invalid, and it never        *)
(* returns an invalid DateTime.                                            *)
(***************************************************************************)
C13_CoercionBounded ==
  tzCall # None =>
    /\ tzCall.minutes <= MAX_DST_COERCE_MINUTES + 1
    /\ TzThrown =>
         /\ ~tzCall.dt.isValid
         /\ \A k \in 1..MAX_DST_COERCE_MINUTES : ~plus(tzCall.base, k).isValid
    /\ tzCall.pc \in {"toUTC", "returned", "back"} =>
         /\ tzCall.coerced.isValid
         /\ \/ tzCall.coerced = tzCall.dt
            \/ /\ ~tzCall.dt.isValid
               /\ \E k \in 1..MAX_DST_COERCE_MINUTES :
                    /\ tzCall.coerced = plus(tzCall.base, k)
                    /\ \A j \in 1..(k - 1) : ~plus(tzCall.base, j).isValid

\* All 180 candidates of "25:00" were tried and the call has thrown.
C13_Witness ==
  /\ TzThrown
  /\ tzCall.wallTimeHHMM = <<25, 0>>
  /\ tzCall.minutes = MAX_DST_COERCE_MINUTES + 1

(***************************************************************************)
(* C14  Round trip: for a wall time that exists in the zone on the date,   *)
(* the instant wallTimeOnDateToUtc returns, taken back into the zone by    *)
(* utcDateToZoneDateTime, shows that date and that time of day; 00:00 on   *)
(* 2025-12-27 in Australia/Sydney is 2025-12-26T13:00Z.                    *)
(***************************************************************************)
C14_RoundTrip ==
  /\ TzBack /\ WallExists =>
       /\ LocalFields(tzCall.back).date = tzCall.dateISO
       /\ LocalFields(tzCall.back).hour = tzCall.wallTimeHHMM[1]
       /\ LocalFields(tzCall.back).minute = tzCall.wallTimeHHMM[2]
  /\ TzReturned /\ WallExists => offset(tzCall.normalizedZone, tzCall.utc) =
       LocalTS(tzCall.dateISO, tzCall.wallTimeHHMM) - tzCall.utc
  /\ /\ TzReturned
     /\ tzCall.zone = Str("Australia/Sydney")
     /\ tzCall.dateISO = <<2025, 12, 27>>
     /\ tzCall.wallTimeHHMM = <<0, 0>>
     => tzCall.utc = UtcMinute(2025, 12, 26, 13, 0)

\* 01:30 on the day Los Angeles falls back, asked for in the summer, has
\* come back as 01:30 of that day.
C14_Witness ==
  /\ TzBack
  /\ tzCall.zone = Str("America/Los_Angeles")
  /\ tzCall.dateISO = <<2025, 11, 2>>
  /\ tzCall.wallTimeHHMM = <<1, 30>>
  /\ tzCall.tsNow = UtcMinute(2025, 7, 15, 12, 0)
  /\ LocalFields(tzCall.back).hour = 1
  /\ LocalFields(tzCall.back).minute = 30

(***************************************************************************)
(* C15  A request whose date is not a calendar date, or whose settings     *)
(* have a defaultTaskDuration of zero or less, fails: autoFitTasks returns *)
(* no result, the route answers with no placements and stores nothing.     *)
(* The code validates neither and serves the request like any other.       *)
(***************************************************************************)
C15_MalformedInputFails ==
  \/ ~ValidFields(request.date, <<0, 0>>)
  \/ userSettings.defaultTaskDuration <= 0
  => /\ result = None
     /\ response = None
     /\ pc # "done"

(***************************************************************************)
(* C16  autoFitTasks is a function of its arguments and of the current     *)
(* instant, which it reads exactly once: the placements (ids aside), the   *)
(* unplaced tasks and the message it returns are those computed from       *)
(* tasks, events, placements, settings, date, offset and that one instant, *)
(* and the arguments are left as they were.  The code reads the clock once *)
(* in _calculateAvailableSlots and once more for the id of every           *)
(* placement.                                                              *)
(***************************************************************************)
RECURSIVE SubtractAll(_, _, _)
SubtractAll(free, blocked, i) ==
  IF i > Len(blocked) THEN free
  ELSE SubtractAll(_subtractTimeFromSlots(free, blocked[i].start, blocked[i].end),
                   blocked, i + 1)

WithoutId(p) ==
  [taskId |-> p.taskId, taskTitle |-> p.taskTitle,
   startTime |-> p.startTime, duration |-> p.duration]

RECURSIVE PlaceAll(_, _, _, _, _, _)
PlaceAll(sorted, i, free, placed, unplaced, stg) ==
  IF i > Len(sorted)
  THEN [placements |-> placed, unplacedTasks |-> unplaced,
        message |-> _generateResultMessage(placed, unplaced)]
  ELSE IF \E j \in 1..Len(placed) : placed[j].taskId = sorted[i].id
  THEN PlaceAll(sorted, i + 1, free, placed, unplaced, stg)
  ELSE LET slot == _findFirstAvailableSlot(free, stg.defaultTaskDuration)
       IN  IF slot = None
           THEN PlaceAll(sorted, i + 1, free, placed, Append(unplaced, sorted[i]), stg)
           ELSE PlaceAll(sorted, i + 1,
                         _removeSlotTime(free, slot[1].start, stg.defaultTaskDuration,
                                         stg.minTimeBetweenTasks),
                         Append(placed, WithoutId(NewPlacement(sorted[i], slot[1], stg, 0, ""))),
                         unplaced, stg)

\* What the arguments and the instant `at` determine.
Determined(tasks, evs, stored, stg, date, tzOffset, at) ==
  LET free == NonEmptySlots(
                SubtractAll(ExcludePast(WorkingHourSlots(stg, date, tzOffset),
                                        at, date, tzOffset),
                            _getBlockedTimes(evs, stored, stg.minTimeBetweenTasks), 1))
  IN  PlaceAll(_sortTasksByPriority(FilterTasks(tasks, stg)), 1, free, <<>>, <<>>, stg)

C16_FunctionOfArguments ==
  Returned =>
    /\ [placements |-> [i \in 1..Len(result.placements) |-> WithoutId(result.placements[i])],
        unplacedTasks |-> result.unplacedTasks,
        message |-> result.message]
         = Determined(request.tasks, events, existingPlacements, settings,
                      request.date, timezoneOffset, now)
    /\ settings = userSettings
    /\ events = calendar

C16_DeterministicOneClockRead ==
  /\ C16_FunctionOfArguments
  /\ Returned => clockReads = 1

(***************************************************************************)
(* C17  After a successful auto-fit request the stored placement list is   *)
(* the list stored before followed by the new placements, the response's   *)
(* allPlacements is that stored list, and every placement stored before    *)
(* (a manual placement at 12:30, say) is still there, unchanged.           *)
(***************************************************************************)
C17_StoredIsPreviousThenNew ==
  /\ pc \in {"buildSlots", "excludePast", "subtract", "place", "save"} =>
       kv = existingPlacements
  /\ Answered =>
       /\ kv = existingPlacements \o result.placements
       /\ response.allPlacements = kv
       /\ response.placements = result.placements
       /\ \A i \in 1..Len(existingPlacements) : kv[i] = existingPlacements[i]

\* The manual placement at 12:30 is stored first, a new placement after it.
C17_Witness ==
  /\ Answered
  /\ Len(existingPlacements) = 1
  /\ PStart(existingPlacements[1]) - LocalInstant(<<0, 0>>) = AtWall(12, 30)
  /\ Len(result.placements) >= 1
  /\ kv[1] = existingPlacements[1]
  /\ kv[2] = result.placements[1]

Subtracted == subCall # None /\ subCall.pc \in {"once", "twice"}

\* What the four cases make of one slot.
DifferenceOf(slot, blockStart, blockEnd) ==
  IF blockEnd <= slot.start \/ blockStart >= slot.end THEN <<slot>>
  ELSE IF blockStart <= slot.start /\ blockEnd >= slot.end THEN <<>>
  ELSE IF slot.start < blockStart /\ blockEnd < slot.end
  THEN <<TimeSlot(slot.start, blockStart), TimeSlot(blockEnd, slot.end)>>
  ELSE IF blockStart <= slot.start THEN <<TimeSlot(blockEnd, slot.end)>>
  ELSE <<TimeSlot(slot.start, blockStart)>>

RECURSIVE SlotBySlot(_, _, _)
SlotBySlot(list, blockStart, blockEnd) ==
  IF list = <<>> THEN <<>>
  ELSE DifferenceOf(Head(list), blockStart, blockEnd)
         \o SlotBySlot(Tail(list), blockStart, blockEnd)

\* The time a slot list covers, in units [t, t + 1].
Covered(list) ==
  {t \in 0..(MaxTime - 1) : \E i \in 1..Len(list) : list[i].start <= t /\ t < list[i].end}

(***************************************************************************)
(* C19  Subtraction is idempotent: for every slot list and every block     *)
(* with blockStart <= blockEnd, _subtractTimeFromSlots applied twice with  *)
(* the same block leaves the list it leaves when applied once.             *)
(***************************************************************************)
C19_SubtractIdempotent ==
  /\ subCall # None
  /\ subCall.pc = "twice"
  /\ subCall.blockStart <= subCall.blockEnd
  => subCall.twice = subCall.once

\* A slot was split by the block and the second application changed nothing.
C19_Witness ==
  /\ subCall # None
  /\ subCall.pc = "twice"
  /\ subCall.blockStart < subCall.blockEnd
  /\ Len(subCall.slots) = 1
  /\ Len(subCall.once) = 2
  /\ subCall.twice = subCall.once

(***************************************************************************)
(* C20  _subtractTimeFromSlots is the interval difference, slot by slot: a *)
(* slot disjoint from the block (touching counts as disjoint) stays, a     *)
(* covered slot goes, a slot strictly containing the block becomes         *)
(* [slot.start, blockStart] and [blockEnd, slot.end] in that order, a slot *)
(* overlapped on one edge is cut back to its part outside the block; the   *)
(* time the result covers is the time the input covers less the block.     *)
(***************************************************************************)
C20_IntervalDifference ==
  Subtracted =>
    /\ subCall.once = SlotBySlot(subCall.slots, subCall.blockStart, subCall.blockEnd)
    /\ subCall.blockStart <= subCall.blockEnd =>
         Covered(subCall.once) =
           Covered(subCall.slots)
             \ {t \in 0..(MaxTime - 1) : subCall.blockStart <= t /\ t < subCall.blockEnd}

\* Of two slots the block has cut the end of the first and covered the second.
C20_Witness ==
  /\ Subtracted
  /\ subCall.slots = <<TimeSlot(0, 2), TimeSlot(2, 3)>>
  /\ subCall.blockStart = 1
  /\ subCall.blockEnd = 3
  /\ subCall.once = <<TimeSlot(0, 1)>>

(***************************************************************************)
(* C21  At every point of an invocation (after the slots are built, after  *)
(* the past is trimmed, after each busy interval is subtracted, after each *)
(* placement is removed) the slot list is ordered by ascending start and   *)
(* its slots are pairwise non-overlapping, whatever the workingHours list. *)
(* The code pushes one slot per range in list order and never sorts or     *)
(* merges, so an out-of-order or overlapping list breaks it.               *)
(***************************************************************************)
SlotsBuilt == pc \in {"excludePast", "subtract", "place", "save", "done"}

C21_SlotsOrderedAndDisjoint ==
  SlotsBuilt =>
    \A i, j \in Indices(slots) :
      i < j => /\ slots[i].start <= slots[j].start
               /\ ~Intersect(slots[i].start, slots[i].end,
                             slots[j].start, slots[j].end)

(***************************************************************************)
(* C22  Every slot has start < end at every point of an invocation: a      *)
(* working-hours range whose clamped start is not before its clamped end   *)
(* is never added, and no subtraction leaves a slot of zero or negative    *)
(* width.                                                                  *)
(***************************************************************************)
C22_SlotsHaveWidth ==
  SlotsBuilt => \A i \in Indices(slots) : slots[i].start < slots[i].end

\* An inverted range and a range outside the visible range were given, a
\* busy interval was cut out of the middle of a slot, and a placement was
\* removed from the head of one.
C22_Witness ==
  /\ pc = "place"
  /\ \E i \in Indices(settings.workingHours) :
       settings.workingHours[i].start = <<10, 0>> /\ settings.workingHours[i].end = <<9, 0>>
  /\ Len(blockedTimes) > 0
  /\ Len(placements) > 0
  /\ Len(slots) > 0
  /\ \E i \in Indices(slots) : \E b \in Indices(blockedTimes) :
       slots[i].end = blockedTimes[b].start

(***************************************************************************)
(* C23  Each placed task is put at the start of the earliest-starting      *)
(* remaining slot that is at least defaultTaskDuration wide, with duration *)
(* defaultTaskDuration; consequently the start times of result.placements  *)
(* are strictly increasing in the order of the list.  The code takes the   *)
(* first wide slot in list order, and the list follows the order of the    *)
(* workingHours setting.                                                   *)
(***************************************************************************)
WideSlots == { i \in Indices(slots) : slots[i].end - slots[i].start >= Duration }

Placed == Len(placements') = Len(placements) + 1

C23_EarliestSlotFirst ==
  /\ [][Placed =>
          LET p == placements'[Len(placements')]
          IN  /\ p.duration = settings.defaultTaskDuration
              /\ \E i \in WideSlots : PStart(p) = slots[i].start
              /\ \A i \in WideSlots : PStart(p) <= slots[i].start]_vars
  /\ [](Placing =>
          \A i, j \in Indices(placements) :
            i < j => PStart(placements[i]) < PStart(placements[j]))

(***************************************************************************)
(* C24  Placement is one pass without backtracking: a task that found no   *)
(* slot stays unplaced, the free time only shrinks from task to task, and  *)
(* in the priority order every placed task comes before every unplaced     *)
(* task.                                                                   *)
(***************************************************************************)
\* The position at which a task id is first met in the priority order.
FirstIndex(id) ==
  CHOOSE i \in Indices(sortedTasks) :
    /\ sortedTasks[i].id = id
    /\ \A k \in 1..(i - 1) : sortedTasks[k].id # id

IsPrefix(s1, s2) == Len(s1) <= Len(s2) /\ SubSeq(s2, 1, Len(s1)) = s1

C24_SinglePass ==
  /\ [](Placing =>
          \A i \in Indices(placements), j \in Indices(unplacedTasks) :
            FirstIndex(placements[i].taskId) < FirstIndex(unplacedTasks[j].id))
  /\ [][(pc = "place" /\ pc' = "place") =>
          /\ ti' = ti + 1
          /\ IsPrefix(unplacedTasks, unplacedTasks')
          /\ IsPrefix(placements, placements')
          /\ \A i \in Indices(slots') : \E j \in Indices(slots) :
                slots[j].start <= slots'[i].start /\ slots'[i].end <= slots[j].end
          /\ (unplacedTasks # <<>> => placements' = placements)]_vars

\* Three tasks were due, the first two were placed and used up the free
\* time, the third found no slot.
C24_Witness ==
  /\ Returned
  /\ Len(placements) = 2
  /\ Len(unplacedTasks) = 1
  /\ slots # <<>>

(***************************************************************************)
(* C25  With ignoreContainerTasks true a task with hasSubtasks true is in  *)
(* neither placements nor unplacedTasks and uses no slot time: the result  *)
(* is the result for the list without such tasks.  With it false such a    *)
(* task is sorted and placed like any other: the result is the result for  *)
(* the list with the marks cleared.                                        *)
(***************************************************************************)
Unmarked(t) == [t EXCEPT !.hasSubtasks = FALSE]

ResultFor(tasks) ==
  Determined(tasks, events, existingPlacements,
             [settings EXCEPT !.ignoreContainerTasks = FALSE],
             request.date, timezoneOffset, now)

C25_ContainerTasks ==
  Returned =>
    LET Leaf(t) == ~t.hasSubtasks
        containers == { t.id : t \in { u \in Elems(request.tasks) : u.hasSubtasks } }
        placed == [i \in Indices(result.placements) |-> WithoutId(result.placements[i])]
        unmarked == [i \in Indices(request.tasks) |-> Unmarked(request.tasks[i])]
        without == ResultFor(SelectSeq(request.tasks, Leaf))
        cleared == ResultFor(unmarked)
    IN  IF settings.ignoreContainerTasks
        THEN /\ \A i \in Indices(result.placements) :
                  result.placements[i].taskId \notin containers
             /\ \A i \in Indices(result.unplacedTasks) :
                  ~result.unplacedTasks[i].hasSubtasks
             /\ placed = without.placements
             /\ result.unplacedTasks = without.unplacedTasks
        ELSE /\ placed = cleared.placements
             /\ [i \in Indices(result.unplacedTasks) |-> Unmarked(result.unplacedTasks[i])]
                  = cleared.unplacedTasks

\* Container tasks are ignored, the first task of the request is one, and
\* the task behind it got the first slot.
C25_Witness ==
  /\ Returned
  /\ settings.ignoreContainerTasks
  /\ Len(request.tasks) > 1
  /\ request.tasks[1].hasSubtasks
  /\ result.placements # <<>>
  /\ result.placements[1].taskId = request.tasks[2].id
  /\ PStart(result.placements[1]) = LocalInstant(<<9, 0>>)

(***************************************************************************)
(* C27  When the task ids of the input are distinct, every task that       *)
(* passes the container filter is exactly once in exactly one of           *)
(* result.placements and result.unplacedTasks, so the two lengths add up   *)
(* to the number of filtered tasks.  For any input no task id is in two    *)
(* placements or in both a placement and unplacedTasks.                    *)
(***************************************************************************)
DistinctIds(tasks) ==
  \A i, j \in Indices(tasks) : tasks[i].id = tasks[j].id => i = j

C27_PlacedOrUnplacedOnce ==
  Returned =>
    LET filtered == SelectSeq(request.tasks, PassesFilter)
        PlacedTimes(id) ==
          Cardinality({ i \in Indices(result.placements) : result.placements[i].taskId = id })
        UnplacedTimes(id) ==
          Cardinality({ i \in Indices(result.unplacedTasks) : result.unplacedTasks[i].id = id })
    IN  /\ DistinctIds(request.tasks) =>
             /\ \A t \in Elems(filtered) : PlacedTimes(t.id) + UnplacedTimes(t.id) = 1
             /\ \A t \in Elems(result.unplacedTasks) : t \in Elems(filtered)
             /\ \A i \in Indices(result.placements) :
                  \E t \in Elems(filtered) : t.id = result.placements[i].taskId
             /\ Len(result.placements) + Len(result.unplacedTasks) = Len(filtered)
        /\ \A t \in Elems(request.tasks) :
             /\ PlacedTimes(t.id) <= 1
             /\ ~(PlacedTimes(t.id) > 0 /\ UnplacedTimes(t.id) > 0)

\* Three tasks with distinct ids, one placed and two left unplaced.
C27_Witness ==
  /\ Returned
  /\ Len(request.tasks) = 3
  /\ DistinctIds(request.tasks)
  /\ Len(result.placements) = 1
  /\ Len(result.unplacedTasks) = 2

\* The same id twice in the request and one placement for it.
C27_WitnessRepeatedId ==
  /\ Returned
  /\ Len(request.tasks) > 1
  /\ request.tasks[1].id = request.tasks[2].id
  /\ \E i \in Indices(result.placements) : result.placements[i].taskId = request.tasks[1].id

(***************************************************************************)
(* C26  No zone identifier reaches date arithmetic unvalidated: every      *)
(* function that takes one, the offset computation of the auto-fit route   *)
(* included, normalizes it first, so that an identifier naming no zone     *)
(* never fails the request and is handled as UTC.  The route hands the     *)
(* identifier of the request to Intl.DateTimeFormat as it came.            *)
(***************************************************************************)
NamesNoZone == request.timezone # None /\ ~request.timezone[1].known

C26_UnknownZoneHandledAsUtc ==
  NamesNoZone =>
    /\ pc # "failed"
    /\ pc # "request" => timezoneOffset = 0
    /\ Returned => \A i \in Indices(result.placements) :
         PStart(result.placements[i]) >= WallInstant(request.date, <<9, 0>>, NoZone)

(***************************************************************************)
(* C30  For every zone, of any offset o from -12:00 to +14:00 (+05:30 and  *)
(* +05:45 among them), getTimezoneOffsetMinutes returns -o, so that        *)
(* _parseTimeToDate(date, "HH:MM", -o) is the instant at which the wall    *)
(* clock of the zone reads HH:MM on the date.  The code computes the       *)
(* offset from the hour and the day of month alone and folds it into       *)
(* -12..12 hours.                                                          *)
(***************************************************************************)
C30_OffsetOfEveryZone ==
  request.timezone # None /\ request.timezone[1].known /\ pc # "request" =>
    /\ timezoneOffset = -request.timezone[1].ahead
    /\ \A wall \in { <<0, 0>>, <<9, 0>>, <<23, 45>> } :
         _parseTimeToDate(request.date, wall, timezoneOffset)
           = WallInstant(request.date, wall, [timezoneOffset |-> None,
                                              timezone |-> request.timezone])

(***************************************************************************)
(* C28  After any sequence of successful auto-fit requests of one user for *)
(* one date, without deletions, repeated requests with the same task list  *)
(* included, the stored list holds at most one placement per task id.      *)
(* autoFitTasks remembers the placed ids of one invocation only and does   *)
(* not look for the task ids of the placements already stored.             *)
(***************************************************************************)
C28_OnePlacementPerTaskStored ==
  \A i, j \in Indices(kv) : kv[i].taskId = kv[j].taskId => i = j

(***************************************************************************)
(* C29  No update is lost when two requests that add placements (an        *)
(* auto-fit request and a POST /api/placements) are served at the same     *)
(* time, whatever the interleaving of their reads and writes of the store: *)
(* when both are answered the stored list holds every placement either     *)
(* reported, and no two stored placements overlap.  Both read the list     *)
(* and write it back whole, with nothing between the two to hold off the   *)
(* other.                                                                  *)
(***************************************************************************)
BothAnswered == Answered /\ addCall # None /\ addCall.pc = "done"

C29_NoLostUpdate ==
  BothAnswered =>
    /\ \A i \in Indices(response.placements) : response.placements[i] \in Elems(kv)
    /\ addCall.placement \in Elems(kv)
    /\ \A i, j \in Indices(kv) :
         i < j => ~Intersect(PStart(kv[i]), PEnd(kv[i]), PStart(kv[j]), PEnd(kv[j]))

\* The first conjuncts alone: what either request reported is stored.
C29_ReportedAreStored ==
  BothAnswered =>
    /\ \A i \in Indices(response.placements) : response.placements[i] \in Elems(kv)
    /\ addCall.placement \in Elems(kv)

=============================================================================
